---- MODULE Spec2Model ----
(***************************************************************************)
(* The storage layer of the tile inventory application (js/storage.js):    *)
(* the cached Document, the adapter's persisted Document, the change       *)
(* watchers, the collection CRUD operations and the stock reconciliation   *)
(* that addSale / addPurchase run after they have saved their record.      *)
(*                                                                         *)
(* Numbers.  A JavaScript number is modelled as an integer count of ticks, *)
(* one tick being 1/TicksPerUnit.  The tick is finer than the three        *)
(* decimals the reconciliation rounds to, so rounding is a real step.      *)
(* Objects.  A JavaScript object is a function from its keys to values;    *)
(* an absent key is absent from the domain.  deepClone is a round trip     *)
(* through JSON text: it drops the properties whose value is undefined.    *)
(* Identity.  heap names the objects in play: the objects the cache is     *)
(* made of, and the objects a page or a watcher has kept, each a set of    *)
(* object names.  Changing a kept object changes the cache exactly when    *)
(* the two share a name.                                                   *)
(* Tabs.  cache and watchers are those of the tab the user works in;       *)
(* otherTab holds those of a second tab on the same storage key.           *)
(* Jobs.  An operation that is awaited runs as one step.  inflight holds   *)
(* the job queue of the operations a page started without awaiting them:   *)
(* each job runs the code up to the next await, in queue order.            *)
(* Adapters.  stored is the Document held by the adapter in use; backend   *)
(* names that adapter and holds the Document of the adapter not in use.    *)
(* Exceptions.  An operation runs over a run record (cache, stored, log,   *)
(* ...); a throw sets its field thrown and every later step is skipped     *)
(* until a catch clears it.                                                *)
(***************************************************************************)
EXTENDS Integers, Sequences, FiniteSets, TLC

VARIABLES cache, stored, watchers, log, now, nextId, last, heap, otherTab, inflight,
          backend

vars ==
  <<cache, stored, watchers, log, now, nextId, last, heap, otherTab, inflight, backend>>

(***************************************************************************)
(* Bounds of the model                                                     *)
(***************************************************************************)
MaxProducts == 2
MaxTxns == 2
MaxItems == 2
MaxAlerts == 2
MaxWatchers == 3
MaxTime == 2
MaxIds == 8
MaxRefs == 8
MaxHeld == 2
MaxRounds == 3
MaxInFlight == 2

(***************************************************************************)
(* Program constants                                                       *)
(***************************************************************************)
DB_VERSION == 1
Thousand == 1000

\* ticks per 1.0: one decimal finer than the rounding step
TicksPerUnit == 10 * Thousand

Unit(n) == n * TicksPerUnit

(***************************************************************************)
(* Utilities                                                               *)
(***************************************************************************)
\* Object.assign({}, a, b): b's keys win, a's other keys are kept
Assign(a, b) ==
  [k \in (DOMAIN a) \cup (DOMAIN b) |-> IF k \in DOMAIN b THEN b[k] ELSE a[k]]

NoKeys == [k \in {} |-> 0]

Has(obj, k) == k \in DOMAIN obj

\* Math.round(x): the nearest integer, halves towards +infinity
MathRound(num, den) == (2 * num + den) \div (2 * den)

\* faulty variant: the next thousandth above, always
Round3_Up(v) ==
  LET step == TicksPerUnit \div Thousand
  IN  (v \div step + 1) * step

\* Math.round(v * 1000) / 1000 on a tick count
Round3(v) ==
  LET step == TicksPerUnit \div Thousand
  IN  MathRound(v, step) * step

generateId(prefix, n) == <<prefix, n>>

nowISO == now

emptyDB ==
  [meta |-> [version |-> DB_VERSION, createdAt |-> nowISO, updatedAt |-> nowISO],
   products |-> <<>>, sales |-> <<>>, purchases |-> <<>>, alerts |-> <<>>,
   users |-> <<>>]

\* Array.prototype.findIndex: the first index whose element has the id, 0 for -1
RECURSIVE FindFrom(_, _, _)
FindFrom(list, id, i) ==
  IF i > Len(list) THEN 0
  ELSE IF list[i].id = id THEN i
  ELSE FindFrom(list, id, i + 1)

FindIndex(list, id) == FindFrom(list, id, 1)

\* Array.prototype.filter(p => p.id !== id)
RECURSIVE FilterOutId(_, _)
FilterOutId(list, id) ==
  IF list = <<>> THEN <<>>
  ELSE IF Head(list).id = id THEN FilterOutId(Tail(list), id)
  ELSE <<Head(list)>> \o FilterOutId(Tail(list), id)

(***************************************************************************)
(* The adapter and the controller: loadDB, saveDB, the collection helpers  *)
(***************************************************************************)
\* the callbacks the pages may register; "bad" throws when it is called
Callbacks == {"good", "bad"}

CallbackThrows(fn) == fn = "bad"

\* "slow" is an async function, as the watchers of the pages are: called, it
\* runs up to its first await and returns a promise
CallbackAsync(fn) == fn = "slow"

\* the failures a call can meet: none, or the n-th adapter save it makes throws
Failures(saves) == 0..saves

\* the run record of one operation, from the state it starts in;
\* failAt is the number of the adapter save that throws (0: none does)
StartRun(failAt) ==
  [cache |-> cache, stored |-> stored, log |-> <<>>, nextId |-> nextId,
   nsave |-> 0, failAt |-> failAt, thrown |-> FALSE]

\* LocalStorageAdapter.save: the stored copy is stamped, the argument is not
\* the JavaScript value undefined, which a text field of a product may hold
Undefined == "undefined"

TextKeys == {"name"}

\* JSON.stringify of an object leaves out the properties that are undefined
JsonObject(obj) ==
  [k \in {k \in DOMAIN obj : ~(k \in TextKeys /\ obj[k] = Undefined)} |-> obj[k]]

\* JSON.parse(JSON.stringify(obj)) of a Document
deepClone(dbObj) ==
  IF Has(dbObj, "products")
  THEN [dbObj EXCEPT !.products = [i \in 1..Len(@) |-> JsonObject(@[i])]]
  ELSE dbObj

\* the text JSON.stringify gives for a value, and the texts that are no JSON
JSONstringify(value) == [kind |-> "json", value |-> value]

NoValue == [isNull |-> TRUE, lists |-> NoKeys, others |-> {}]

EmptyText == [kind |-> "empty", value |-> NoValue]

BrokenText == [kind |-> "broken", value |-> NoValue]

\* faulty variant: a text that is no JSON parses to an object without lists
JSONparse_Lenient(text) ==
  [thrown |-> FALSE,
   value |-> IF text.kind = "json" THEN text.value
             ELSE [isNull |-> FALSE, lists |-> NoKeys, others |-> {}]]

\* JSON.parse: the value of a JSON text, a SyntaxError for any other text
JSONparse(text) ==
  IF text.kind = "json" THEN [thrown |-> FALSE, value |-> text.value]
  ELSE [thrown |-> TRUE, value |-> NoValue]

AdapterSave(dbObj) ==
  [deepClone(dbObj) EXCEPT !.meta = Assign(@, [updatedAt |-> nowISO])]

\* faulty variant: a watcher that throws ends the notification
NotifyWatchers_StopAtThrow(newCache) ==
  LET stop == {i \in 1..Len(watchers) : CallbackThrows(watchers[i])}
      n == IF stop = {} THEN Len(watchers)
           ELSE CHOOSE i \in stop : \A j \in stop : i <= j
  IN  [i \in 1..n |->
         [kind |-> "call", fn |-> watchers[i], pos |-> i, doc |-> newCache,
          threw |-> CallbackThrows(watchers[i])]]

\* faulty variant: the watchers are called last registered first
NotifyWatchers_Reversed(newCache) ==
  [i \in 1..Len(watchers) |->
     [kind |-> "call", fn |-> watchers[Len(watchers) + 1 - i],
      pos |-> Len(watchers) + 1 - i, doc |-> newCache,
      threw |-> CallbackThrows(watchers[Len(watchers) + 1 - i])]]

\* _watchers.forEach(fn => try { fn(deepClone(_dbCache)) } catch ...)
NotifyWatchers(newCache) ==
  [i \in 1..Len(watchers) |->
     [kind |-> "call", fn |-> watchers[i], pos |-> i, doc |-> newCache,
      threw |-> CallbackThrows(watchers[i])]]

\* faulty variant: a failed adapter save is tried once more, and then works
saveDB_Retry(r, dbObj) ==
  IF r.thrown THEN r
  ELSE LET failed == r.nsave + 1 = r.failAt
           events == IF failed
                     THEN <<[kind |-> "savefail", fn |-> "", pos |-> 0,
                             doc |-> NoKeys, threw |-> TRUE]>>
                     ELSE <<>>
       IN  [r EXCEPT !.nsave = @ + 1,
                     !.stored = AdapterSave(dbObj),
                     !.cache = deepClone(dbObj),
                     !.log = @ \o events
                             \o <<[kind |-> "save", fn |-> "", pos |-> 0,
                                   doc |-> NoKeys, threw |-> FALSE]>>
                             \o NotifyWatchers(deepClone(dbObj))]

saveDB(r, dbObj) ==
  IF r.thrown THEN r
  ELSE IF r.nsave + 1 = r.failAt
  THEN [r EXCEPT !.nsave = @ + 1, !.thrown = TRUE,
                 !.log = Append(@, [kind |-> "savefail", fn |-> "", pos |-> 0,
                                    doc |-> NoKeys, threw |-> TRUE])]
  ELSE [r EXCEPT !.nsave = @ + 1,
                 !.stored = AdapterSave(dbObj),
                 !.cache = deepClone(dbObj),
                 !.log = Append(@, [kind |-> "save", fn |-> "", pos |-> 0,
                                    doc |-> NoKeys, threw |-> FALSE])
                         \o NotifyWatchers(deepClone(dbObj))]

\* loadDB() with a cache: a deep copy of the cache
loadDB(r) == deepClone(r.cache)

\* null: no cache yet, nothing under the storage key, no record found
Null == [null |-> TRUE]

\* what the adapter does besides saving, as the log shows it
AdapterEvent(kind) ==
  [kind |-> kind, fn |-> "", pos |-> 0, doc |-> NoKeys, threw |-> FALSE]

\* what may lie under the storage key besides a Document: the empty text,
\* a text that is no JSON, and the text null
EmptyStored == [text |-> ""]

Garbage == [text |-> "garbage"]

StoredNull == [text |-> "null"]

\* faulty variant: the fresh Document is returned and not written back
StoreFresh_Skip(r, db) == r

\* localStorage.setItem(DB_KEY, JSON.stringify(db)) inside load
StoreFresh(r, db) == [r EXCEPT !.stored = db]

\* faulty variant: the migration carries the alerts over as well
Migrated_WithAlerts(raw) ==
  [c \in DOMAIN emptyDB |->
     IF c = "meta" THEN Assign(emptyDB.meta, [updatedAt |-> nowISO])
     ELSE IF c \in {"products", "sales", "purchases", "alerts"} /\ Has(raw, c) THEN raw[c]
     ELSE emptyDB[c]]

\* the migration: a fresh Document that takes over products, sales, purchases
Migrated(raw) ==
  [c \in DOMAIN emptyDB |->
     IF c = "meta" THEN Assign(emptyDB.meta, [updatedAt |-> nowISO])
     ELSE IF c \in {"products", "sales", "purchases"} /\ Has(raw, c) THEN raw[c]
     ELSE emptyDB[c]]

\* LocalStorageAdapter.load: nothing (or the empty text) under the key gives
\* a fresh Document; a text that does not parse, or parses to null (reading
\* its meta throws), is caught, reported, and gives a fresh Document; a
\* Document is migrated when its meta has not the version
adapterLoad(r) ==
  LET raw == r.stored
      seen == [r EXCEPT !.log = Append(@, AdapterEvent("load"))]
      caught == [seen EXCEPT !.log = Append(@, AdapterEvent("error"))]
  IN  IF raw = Null \/ raw = EmptyStored
      THEN [run |-> StoreFresh(seen, emptyDB), db |-> emptyDB]
      ELSE IF raw = Garbage \/ raw = StoredNull
      THEN [run |-> StoreFresh(caught, emptyDB), db |-> emptyDB]
      ELSE IF ~Has(raw, "meta") \/ ~Has(raw.meta, "version")
      THEN [run |-> StoreFresh(seen, Migrated(raw)), db |-> Migrated(raw)]
      ELSE IF raw.meta.version # DB_VERSION
      THEN [run |-> StoreFresh(seen, Migrated(raw)), db |-> Migrated(raw)]
      ELSE [run |-> seen, db |-> deepClone(raw)]

\* faulty variant: the adapter is consulted on every call
loadDBRun_Always(r, force) ==
  LET a == adapterLoad(r)
  IN  [run |-> [a.run EXCEPT !.cache = a.db], db |-> deepClone(a.db)]

\* loadDB(force): the cache when there is one and force is not set
loadDBRun(r, force) ==
  IF r.cache # Null /\ ~force THEN [run |-> r, db |-> deepClone(r.cache)]
  ELSE LET a == adapterLoad(r)
       IN  [run |-> [a.run EXCEPT !.cache = a.db], db |-> deepClone(a.db)]

\* clearDB(): adapter.clear(), the cache dropped, then a forced load
clearDBRun(r) ==
  loadDBRun([r EXCEPT !.stored = Null, !.cache = Null,
                      !.log = Append(@, AdapterEvent("clear"))], TRUE)

getCollection(r, name) == loadDB(r)[name]

\* faulty variant: the Document is read from the storage key before it is
\* changed and saved
saveCollection_Fresh(r, name, collection) ==
  saveDB(r, [r.stored EXCEPT ![name] = collection])

saveCollection(r, name, collection) ==
  saveDB(r, [loadDB(r) EXCEPT ![name] = collection])

\* the generated id of this run, and the run after it was generated
TakeId(r) == [r EXCEPT !.nextId = @ + 1]

\* the highest number among the generated ids a Document holds
IdNumbers(doc) ==
  {doc[c][i].id[2] : <<c, i>> \in
     UNION {{c} \X {i \in 1..Len(doc[c]) : Has(doc[c][i], "id")} :
              c \in {"products", "sales", "purchases", "alerts"}}}

HighId(doc) ==
  IF ~Has(doc, "products") THEN 0
  ELSE IF IdNumbers(doc) = {} THEN 0
  ELSE CHOOSE n \in IdNumbers(doc) : \A m \in IdNumbers(doc) : m <= n

\* what an operation leaves in the state.  An id that was generated and never
\* stored is seen by nobody, so the numbering resumes after the stored ones.
\* what the async watchers called in events left to do: saveDB drops the
\* promise fn(...) returns, and the rest of fn runs as jobs of its own
WatcherJobs(events) ==
  LET calls == SelectSeq([n \in 1..Len(events) |-> [event |-> n, call |-> events[n]]],
                         LAMBDA c : c.call.kind = "call" /\ CallbackAsync(c.call.fn))
  IN  [k \in 1..Len(calls) |->
         [task |-> 0, op |-> "watcher",
          args |-> [fn |-> calls[k].call.fn, pos |-> calls[k].call.pos,
                    event |-> calls[k].event],
          pc |-> "wt", after |-> "", name |-> "", db |-> Null, coll |-> <<>>,
          products |-> <<>>, i |-> 0, idx |-> 0, record |-> Null]]

Effects(r, op) ==
  /\ cache' = r.cache
  /\ stored' = r.stored
  /\ log' = r.log
  /\ nextId' = IF HighId(r.cache) >= nextId THEN HighId(r.cache) + 1 ELSE nextId
  /\ last' = op
  /\ inflight' = [inflight EXCEPT !.queue = @ \o WatcherJobs(r.log)]
  /\ UNCHANGED <<watchers, now, otherTab, backend>>

\* an operation of which the caller keeps nothing
Commit(r, op) == Effects(r, op) /\ UNCHANGED heap

(***************************************************************************)
(* Products                                                                *)
(***************************************************************************)
ZeroStock == [boxes |-> 0, pieces |-> 0, sft |-> 0]

ProductDefaults(id) ==
  [id |-> id, currentStock |-> ZeroStock, minStock |-> 0, dateAdded |-> nowISO]

addProductRun(r0, productData) ==
  LET list == getCollection(r0, "products")
      product == Assign(ProductDefaults(generateId("prod", r0.nextId)), productData)
      r1 == TakeId(r0)
  IN  [run |-> saveCollection(r1, "products", Append(list, product)),
       product |-> product]

\* faulty variant: the patch is merged over the fresh timestamp
updateProductRun_PatchLast(r0, productId, updates) ==
  LET list == getCollection(r0, "products")
      idx == FindIndex(list, productId)
  IN  IF idx = 0 THEN [r0 EXCEPT !.thrown = TRUE]
      ELSE saveCollection(r0, "products",
             [list EXCEPT ![idx] =
                Assign(Assign(list[idx], [dateUpdated |-> nowISO]), updates)])

updateProductRun(r0, productId, updates) ==
  LET list == getCollection(r0, "products")
      idx == FindIndex(list, productId)
  IN  IF idx = 0 THEN [r0 EXCEPT !.thrown = TRUE]
      ELSE saveCollection(r0, "products",
             [list EXCEPT ![idx] =
                Assign(Assign(list[idx], updates), [dateUpdated |-> nowISO])])

\* faulty variant: the alerts of the deleted product go with it
deleteProductRun_Cascade(r0, productId) ==
  LET db == loadDB(r0)
  IN  IF FindIndex(db.products, productId) = 0 THEN [r0 EXCEPT !.thrown = TRUE]
      ELSE saveDB(r0, [db EXCEPT
                         !.products = FilterOutId(@, productId),
                         !.alerts = SelectSeq(@, LAMBDA a : a.productId # productId)])

\* list.find(p => p.id === productId) || null
getProductById(r, productId) ==
  LET list == getCollection(r, "products")
      idx == FindIndex(list, productId)
  IN  IF idx = 0 THEN Null ELSE list[idx]

deleteProductRun(r0, productId) ==
  LET list == getCollection(r0, "products")
  IN  IF FindIndex(list, productId) = 0 THEN [r0 EXCEPT !.thrown = TRUE]
      ELSE saveCollection(r0, "products", FilterOutId(list, productId))

(***************************************************************************)
(* Stock reconciliation                                                    *)
(***************************************************************************)
\* String.prototype.toLowerCase on the unit names the model writes
toLowerCase(s) ==
  CASE s = "Box" -> "box"
    [] s = "SFT" -> "sft"
    [] s = "Piece" -> "piece"
    [] s = "Boxes" -> "boxes"
    [] s = "SqFt" -> "sqft"
    [] s = "Square Feet" -> "square feet"
    [] s = "S.F.T" -> "s.f.t"
    [] OTHER -> s

\* String.prototype.trim on the unit names the model writes
trim(s) ==
  CASE s = " box " -> "box"
    [] s = " SFT" -> "SFT"
    [] OTHER -> s

\* normalizeUnitName of utils.js: one of box, piece, sft, or the name itself
normalizeUnitName(unit) ==
  IF unit = "" THEN "piece"
  ELSE LET u == toLowerCase(trim(unit))
       IN  IF u = "box" \/ u = "boxes" THEN "box"
           ELSE IF u = "piece" \/ u = "pieces" \/ u = "pc" \/ u = "pcs" THEN "piece"
           ELSE IF \/ u = "sft" \/ u = "s.f.t" \/ u = "sqft"
                   \/ u = "squarefeet" \/ u = "square feet" THEN "sft"
           ELSE u

\* the counter a sale item's unitType selects (lines 355-368)
SaleCounter(itemUnitType) ==
  LET unitType == toLowerCase(itemUnitType)
  IN  IF unitType = "box" \/ unitType = "boxes" THEN "boxes"
      ELSE IF unitType = "piece" \/ unitType = "pieces" THEN "pieces"
      ELSE IF \/ unitType = "sft" \/ unitType = "s.f.t"
              \/ unitType = "squarefeet" \/ unitType = "square feet" THEN "sft"
      ELSE "pieces"

\* the counter a purchase item's unitType selects (lines 415-426)
PurchaseCounter(itemUnitType) ==
  LET unitType == toLowerCase(itemUnitType)
  IN  IF unitType = "box" \/ unitType = "boxes" THEN "boxes"
      ELSE IF unitType = "piece" \/ unitType = "pieces" THEN "pieces"
      ELSE IF \/ unitType = "sft"
              \/ unitType = "squarefeet" \/ unitType = "square feet" THEN "sft"
      ELSE "pieces"

\* the unit names the sale's if-chain names (the others fall to its else)
SaleRecognised(itemUnitType) ==
  toLowerCase(itemUnitType) \in
    {"box", "boxes", "piece", "pieces", "sft", "s.f.t", "squarefeet", "square feet"}

\* the unit names the purchase's if-chain names
PurchaseRecognised(itemUnitType) ==
  toLowerCase(itemUnitType) \in
    {"box", "boxes", "piece", "pieces", "sft", "squarefeet", "square feet"}

(***************************************************************************)
(* Unit conversion (utils.js).  A value handed to toNumber is a finite     *)
(* number n or something that is none (undefined, NaN, a text).  A         *)
(* quantity is counted in ticks, a factor per box in tenths.               *)
(***************************************************************************)
Num(n) == [finite |-> TRUE, n |-> n]

NaN == [finite |-> FALSE, n |-> 0]

\* tenths per 1.0, the scale of the factors
TenthsPerUnit == TicksPerUnit \div Thousand

Tenths(n) == n * TenthsPerUnit

\* toNumber(v): Number(v) when that is finite, the fallback 0 otherwise
toNumber(v) == IF v.finite THEN v.n ELSE 0

\* roundTo(v) for v = num / den ticks: v rounded to three decimals
roundTo(num, den) ==
  LET step == TicksPerUnit \div Thousand
  IN  Num(MathRound(num, den * step) * step)

\* the conversion by way of boxes: boxes = q / (factor of the source), and
\* the result is boxes * (factor of the target)
viaBoxes(q, from, to, piecesPerBox, sftPerBox) ==
  LET ppb == toNumber(piecesPerBox)
      spb == toNumber(sftPerBox)
      \* fromUnit -> boxes; an unknown unit is tried as pieces
      den == IF from = "box" THEN Tenths(1)
             ELSE IF from = "sft" THEN spb
             ELSE ppb
  IN  IF den <= 0 THEN NaN
      ELSE IF to = "box" THEN roundTo(q * Tenths(1), den)
      ELSE IF to = "piece" THEN (IF ppb <= 0 THEN NaN ELSE roundTo(q * ppb, den))
      ELSE IF to = "sft" THEN (IF spb <= 0 THEN NaN ELSE roundTo(q * spb, den))
      ELSE NaN

\* faulty variant: equal units are converted by way of boxes as well
convertUnits_NoShortcut(quantity, fromUnit, toUnit, piecesPerBox, sftPerBox) ==
  viaBoxes(toNumber(quantity), normalizeUnitName(fromUnit), normalizeUnitName(toUnit),
           piecesPerBox, sftPerBox)

convertUnits(quantity, fromUnit, toUnit, piecesPerBox, sftPerBox) ==
  LET q == toNumber(quantity)
      from == normalizeUnitName(fromUnit)
      to == normalizeUnitName(toUnit)
  IN  IF from = to THEN roundTo(q, 1)
      ELSE viaBoxes(q, from, to, piecesPerBox, sftPerBox)

\* the three Math.round(... * 1000) / 1000 lines
RoundStock(stock) ==
  [boxes |-> Round3(stock.boxes), pieces |-> Round3(stock.pieces),
   sft |-> Round3(stock.sft)]

\* faulty variant: a sale never takes a counter below zero
SaleStock_Clamped(stock, item) ==
  LET c == SaleCounter(item.unitType)
      v == stock[c] - item.quantity
  IN  RoundStock([stock EXCEPT ![c] = IF v < 0 THEN 0 ELSE v])

SaleStock(stock, item) ==
  RoundStock([stock EXCEPT ![SaleCounter(item.unitType)] = @ - item.quantity])

\* faulty variant: a purchase adds the quantity to every counter
PurchaseStock_AllCounters(stock, item) ==
  RoundStock([c \in DOMAIN stock |-> stock[c] + item.quantity])

PurchaseStock(stock, item) ==
  RoundStock([stock EXCEPT ![PurchaseCounter(item.unitType)] = @ + item.quantity])

\* the threshold test after a decrement
SaleNeedsAlert(stock, min) ==
  \/ stock.boxes <= min /\ min > 0
  \/ stock.pieces <= min /\ min > 0
  \/ stock.sft <= min /\ min > 0

\* the threshold test after an increment
PurchaseResolves(stock, min) ==
  \/ stock.boxes >= min /\ min > 0
  \/ stock.pieces >= min /\ min > 0
  \/ stock.sft >= min /\ min > 0

\* faulty variant: the existing alert is not looked for
HasUnresolved_Never(alerts, productId) == FALSE

\* alerts.find(a => a.productId === product.id && !a.resolved)
HasUnresolved(alerts, productId) ==
  \E j \in 1..Len(alerts) : alerts[j].productId = productId /\ ~alerts[j].resolved

SaleAlert(id, product, min) ==
  [id |-> id, productId |-> product.id, minRequired |-> min,
   alertDate |-> nowISO, resolved |-> FALSE]

\* one pass of the sale loop: st = [run, products], products the local list
SaleItem(st, item) ==
  LET idx == FindIndex(st.products, item.productId)
  IN  IF idx = 0 THEN st
      ELSE
        LET product == st.products[idx]
            stock == SaleStock(product.currentStock, item)
            products2 == [st.products EXCEPT ![idx] = Assign(@, [currentStock |-> stock])]
            min == product.minStock
            alerts == getCollection(st.run, "alerts")
        IN  IF SaleNeedsAlert(stock, min) /\ ~HasUnresolved(alerts, product.id)
            THEN [run |-> saveCollection(TakeId(st.run), "alerts",
                            Append(alerts,
                              SaleAlert(generateId("alert", st.run.nextId), product, min))),
                  products |-> products2]
            ELSE [run |-> st.run, products |-> products2]

\* faulty variant: an item whose product is missing ends the loop
RECURSIVE SaleLoop_Break(_, _, _)
SaleLoop_Break(st, items, i) ==
  IF st.run.thrown \/ i > Len(items) THEN st
  ELSE IF FindIndex(st.products, items[i].productId) = 0 THEN st
  ELSE SaleLoop_Break(SaleItem(st, items[i]), items, i + 1)

RECURSIVE SaleLoop(_, _, _)
SaleLoop(st, items, i) ==
  IF st.run.thrown \/ i > Len(items) THEN st
  ELSE SaleLoop(SaleItem(st, items[i]), items, i + 1)

applyStockChangesFromSale(r0, sale) ==
  LET st == SaleLoop([run |-> r0, products |-> getCollection(r0, "products")],
                     sale.items, 1)
  IN  saveCollection(st.run, "products", st.products)

\* faulty variant: the alerts of the product are removed instead of resolved
ResolveFor_Deleted(alerts, productId) ==
  SelectSeq(alerts, LAMBDA a : ~(a.productId = productId /\ ~a.resolved))

\* alerts.forEach(a => { if (a.productId === product.id && !a.resolved) ... })
ResolveFor(alerts, productId) ==
  [j \in 1..Len(alerts) |->
     IF alerts[j].productId = productId /\ ~alerts[j].resolved
     THEN Assign(alerts[j], [resolved |-> TRUE, resolvedAt |-> nowISO])
     ELSE alerts[j]]

PurchaseItem(st, item) ==
  LET idx == FindIndex(st.products, item.productId)
  IN  IF idx = 0 THEN st
      ELSE
        LET product == st.products[idx]
            stock == PurchaseStock(product.currentStock, item)
            products2 == [st.products EXCEPT ![idx] = Assign(@, [currentStock |-> stock])]
            min == product.minStock
            alerts == getCollection(st.run, "alerts")
        IN  IF PurchaseResolves(stock, min) /\ HasUnresolved(alerts, product.id)
            THEN [run |-> saveCollection(st.run, "alerts", ResolveFor(alerts, product.id)),
                  products |-> products2]
            ELSE [run |-> st.run, products |-> products2]

RECURSIVE PurchaseLoop(_, _, _)
PurchaseLoop(st, items, i) ==
  IF st.run.thrown \/ i > Len(items) THEN st
  ELSE PurchaseLoop(PurchaseItem(st, items[i]), items, i + 1)

applyStockChangesFromPurchase(r0, purchase) ==
  LET st == PurchaseLoop([run |-> r0, products |-> getCollection(r0, "products")],
                         purchase.items, 1)
  IN  saveCollection(st.run, "products", st.products)

(***************************************************************************)
(* Sales, purchases, alerts                                                *)
(***************************************************************************)
\* faulty variant: the failure of the reconciliation reaches the caller
Caught_Rethrown(r) == r

\* try { await _applyStockChanges...(record) } catch (e) { console.warn(...) }
Caught(r) == [r EXCEPT !.thrown = FALSE]

addSaleRun(r0, saleData) ==
  LET list == getCollection(r0, "sales")
      sale == Assign([id |-> generateId("sale", r0.nextId), dateTime |-> nowISO,
                      items |-> <<>>], saleData)
      r1 == saveCollection(TakeId(r0), "sales", Append(list, sale))
      r2 == applyStockChangesFromSale(r1, sale)
  IN  IF r1.thrown THEN [run |-> r1, record |-> sale, reconciled |-> FALSE]
      ELSE [run |-> Caught(r2), record |-> sale, reconciled |-> ~r2.thrown]

addPurchaseRun(r0, purchaseData) ==
  LET list == getCollection(r0, "purchases")
      purchase == Assign([id |-> generateId("pur", r0.nextId), dateTime |-> nowISO,
                          items |-> <<>>], purchaseData)
      r1 == saveCollection(TakeId(r0), "purchases", Append(list, purchase))
      r2 == applyStockChangesFromPurchase(r1, purchase)
  IN  IF r1.thrown THEN [run |-> r1, record |-> purchase, reconciled |-> FALSE]
      ELSE [run |-> Caught(r2), record |-> purchase, reconciled |-> ~r2.thrown]

addAlertRun(r0, alertData) ==
  LET list == getCollection(r0, "alerts")
      alert == Assign([id |-> generateId("alert", r0.nextId),
                       productId |-> alertData.productId, minRequired |-> 0,
                       alertDate |-> nowISO, resolved |-> FALSE], alertData)
  IN  [run |-> saveCollection(TakeId(r0), "alerts", Append(list, alert)),
       record |-> alert]

\* faulty variant: resolving an alert that is resolved opens it again
resolveAlertRun_Toggle(r0, alertId) ==
  LET list == getCollection(r0, "alerts")
      idx == FindIndex(list, alertId)
  IN  IF idx = 0 THEN [r0 EXCEPT !.thrown = TRUE]
      ELSE saveCollection(r0, "alerts",
             [list EXCEPT ![idx] = Assign(@, [resolved |-> ~@.resolved,
                                              resolvedAt |-> nowISO])])

resolveAlertRun(r0, alertId) ==
  LET list == getCollection(r0, "alerts")
      idx == FindIndex(list, alertId)
  IN  IF idx = 0 THEN [r0 EXCEPT !.thrown = TRUE]
      ELSE saveCollection(r0, "alerts",
             [list EXCEPT ![idx] = Assign(@, [resolved |-> TRUE, resolvedAt |-> nowISO])])

(***************************************************************************)
(* Export and import                                                       *)
(***************************************************************************)
\* A JSON value as import reads it: null, or an object of which the
\* properties that are lists are kept apart from the others.
JsonNull == NoValue

Collections == {"products", "sales", "purchases", "alerts", "users"}

JsonObjectOf(lists, others) == [isNull |-> FALSE, lists |-> lists, others |-> others]

\* the JSON value of a Document: its collections are lists, its meta is not
JsonOf(db) ==
  JsonObjectOf([c \in DOMAIN db \cap Collections |-> db[c]], DOMAIN db \ Collections)

\* JSON.stringify(db) of the Document loadDB gives (the download is not modelled)
exportDBRun(r0) == [run |-> r0, json |-> JSONstringify(JsonOf(loadDB(r0)))]

\* parsed[name] with what Array.isArray says of it
Prop(parsed, name) ==
  IF name \in DOMAIN parsed.lists
  THEN [isArray |-> TRUE, items |-> parsed.lists[name]]
  ELSE [isArray |-> FALSE, items |-> <<>>]

\* mergeArray: existingIds is taken once, before the incoming items are pushed
mergeArray(targetArr, incomingArr) ==
  IF ~incomingArr.isArray THEN targetArr
  ELSE LET existingIds == {targetArr[i].id :
                             i \in {i \in 1..Len(targetArr) : Has(targetArr[i], "id")}}
       IN  targetArr \o SelectSeq(incomingArr.items,
                                  LAMBDA it : Has(it, "id") /\ it.id \notin existingIds)

\* faulty variant: the replacing import reads no alerts (as the migration of
\* the adapter does)
importDBRun_DropsAlerts(r0, jsonString, merge) ==
  LET parse == JSONparse(jsonString)
      parsed == parse.value
  IN  IF jsonString.kind = "empty" \/ parse.thrown \/ parsed.isNull
      THEN [r0 EXCEPT !.thrown = TRUE]
      ELSE saveDB(r0,
             [c \in DOMAIN emptyDB |->
                IF c = "meta" THEN Assign(emptyDB.meta, [importedAt |-> nowISO])
                ELSE IF c # "alerts" /\ Prop(parsed, c).isArray THEN Prop(parsed, c).items
                ELSE emptyDB[c]])

\* faulty variant: the replacing import carries the alerts of the target over
importDBRun_KeepsAlerts(r0, jsonString, merge) ==
  LET parse == JSONparse(jsonString)
      parsed == parse.value
  IN  IF jsonString.kind = "empty" \/ parse.thrown \/ parsed.isNull
      THEN [r0 EXCEPT !.thrown = TRUE]
      ELSE saveDB(r0,
             [c \in DOMAIN emptyDB |->
                IF c = "meta" THEN Assign(emptyDB.meta, [importedAt |-> nowISO])
                ELSE IF c = "alerts" THEN loadDB(r0).alerts
                ELSE IF Prop(parsed, c).isArray THEN Prop(parsed, c).items
                ELSE emptyDB[c]])

importDBRun(r0, jsonString, merge) ==
  LET parse == JSONparse(jsonString)
      parsed == parse.value
  IN  IF jsonString.kind = "empty" THEN [r0 EXCEPT !.thrown = TRUE]
      ELSE IF parse.thrown THEN [r0 EXCEPT !.thrown = TRUE]
      \* reading a property of null is a TypeError, in either mode
      ELSE IF parsed.isNull THEN [r0 EXCEPT !.thrown = TRUE]
      ELSE IF ~merge
      THEN saveDB(r0,
             [c \in DOMAIN emptyDB |->
                IF c = "meta" THEN Assign(emptyDB.meta, [importedAt |-> nowISO])
                ELSE IF Prop(parsed, c).isArray THEN Prop(parsed, c).items
                ELSE emptyDB[c]])
      ELSE LET db == loadDB(r0)
           IN  saveDB(r0,
                 [c \in DOMAIN db |->
                    IF c \in Collections THEN mergeArray(db[c], Prop(parsed, c))
                    ELSE db[c]])

(***************************************************************************)
(* The operations as actions.  last records the call and what its caller   *)
(* sees; log holds the adapter saves and watcher calls of that call.       *)
(* failAt is the adapter save of the call that throws (0: none).           *)
(***************************************************************************)
NoId == <<"none", 0>>

\* an id no product and no alert has
MissingId == <<"prod", 0>>

Op(name, id, data, r, reconciled, returned) ==
  [op |-> name, id |-> id, data |-> IF r.thrown THEN NoKeys ELSE data,
   result |-> IF r.thrown THEN "rejected" ELSE "ok",
   reconciled |-> reconciled,
   returned |-> IF r.thrown THEN NoId ELSE returned]

ProductIds ==
  {cache.products[i].id :
     i \in {i \in 1..Len(cache.products) : Has(cache.products[i], "id")}}

AlertIds == {cache.alerts[i].id : i \in 1..Len(cache.alerts)}

\* generateId has ids left to give (the model's ids are numbered)
IdsLeft == nextId <= MaxIds

AddProduct(productData, failAt) ==
  /\ Len(cache.products) < MaxProducts
  /\ IdsLeft
  /\ \E res \in {addProductRun(StartRun(failAt), productData)} :
         Commit(res.run,
                Op("addProduct", NoId, productData, res.run, FALSE, res.product.id))

UpdateProduct(productId, updates, failAt) ==
  \E r \in {updateProductRun(StartRun(failAt), productId, updates)} :
      Commit(r, Op("updateProduct", productId, updates, r, FALSE, NoId))

DeleteProduct(productId, failAt) ==
  \E r \in {deleteProductRun(StartRun(failAt), productId)} :
      Commit(r, Op("deleteProduct", productId, NoKeys, r, FALSE, NoId))

\* the model records at most MaxTxns sales and purchases
TxnRoom == Len(cache.sales) + Len(cache.purchases) < MaxTxns /\ IdsLeft

AddSale(items, failAt) ==
  /\ TxnRoom
  /\ \E res \in {addSaleRun(StartRun(failAt), [items |-> items])} :
         Commit(res.run,
                Op("addSale", NoId, items, res.run, res.reconciled, res.record.id))

AddPurchase(items, failAt) ==
  /\ TxnRoom
  /\ \E res \in {addPurchaseRun(StartRun(failAt), [items |-> items])} :
         Commit(res.run,
                Op("addPurchase", NoId, items, res.run, res.reconciled, res.record.id))

AddAlert(productId, failAt) ==
  /\ Len(cache.alerts) < MaxAlerts
  /\ IdsLeft
  /\ \E res \in {addAlertRun(StartRun(failAt), [productId |-> productId])} :
         Commit(res.run,
                Op("addAlert", productId, NoKeys, res.run, FALSE, res.record.id))

ResolveAlert(alertId, failAt) ==
  \E r \in {resolveAlertRun(StartRun(failAt), alertId)} :
      Commit(r, Op("resolveAlert", alertId, NoKeys, r, FALSE, NoId))

NoOp(name) ==
  [op |-> name, id |-> NoId, data |-> NoKeys, result |-> "ok",
   reconciled |-> FALSE, returned |-> NoId]

\* saveDB called by a page with a Document of its own
SaveDB(dbObj, failAt) ==
  \E r \in {saveDB(StartRun(failAt), dbObj)} :
    Commit(r, Op("saveDB", NoId, dbObj, r, FALSE, NoId))

\* loadDB(force) called by a page
LoadDB(force) ==
  \E res \in {loadDBRun(StartRun(0), force)} :
    Commit(res.run, [NoOp("loadDB") EXCEPT !.data = [force |-> force, db |-> res.db]])

\* clearDB()
ClearDB ==
  \E res \in {clearDBRun(StartRun(0))} :
    Commit(res.run, [NoOp("clearDB") EXCEPT !.data = [force |-> TRUE, db |-> res.db]])

\* exportDB(): the caller is left with the text
ExportDB ==
  /\ last.op # "exportDB"
  /\ \E res \in {exportDBRun(StartRun(0))} :
       Commit(res.run, [NoOp("exportDB") EXCEPT
                          !.data = [text |-> res.json, merge |-> FALSE]])

\* importDB(jsonString, merge)
ImportDB(jsonString, merge, failAt) ==
  \E r \in {importDBRun(StartRun(failAt), jsonString, merge)} :
    Commit(r, [Op("importDB", NoId, NoKeys, r, FALSE, NoId) EXCEPT
                 !.data = [text |-> jsonString, merge |-> merge]])

\* onChange(callback) with a function
OnChange(callback) ==
  /\ Len(watchers) < MaxWatchers
  /\ watchers' = Append(watchers, callback)
  /\ log' = <<>>
  /\ last' = NoOp("onChange")
  /\ UNCHANGED <<cache, stored, now, nextId, heap, otherTab, inflight, backend>>

\* the function onChange(callback) returned is called
\* faulty variant: only the first registration of the callback is removed
Unsubscribe_First(callback) ==
  /\ \E i \in 1..Len(watchers) : watchers[i] = callback
  /\ LET k == CHOOSE i \in 1..Len(watchers) :
                 watchers[i] = callback /\ \A j \in 1..(i - 1) : watchers[j] # callback
     IN  watchers' = SubSeq(watchers, 1, k - 1) \o SubSeq(watchers, k + 1, Len(watchers))
  /\ log' = <<>>
  /\ last' = [NoOp("unsubscribe") EXCEPT
                !.data = [callback |-> callback,
                          removed |-> Len(watchers) - Len(watchers')]]
  /\ UNCHANGED <<cache, stored, now, nextId, heap, otherTab, inflight, backend>>

Unsubscribe(callback) ==
  /\ \E i \in 1..Len(watchers) : watchers[i] = callback
  /\ watchers' = SelectSeq(watchers, LAMBDA fn : fn # callback)
  /\ log' = <<>>
  /\ last' = [NoOp("unsubscribe") EXCEPT
                !.data = [callback |-> callback,
                          removed |-> Len(watchers) - Len(watchers')]]
  /\ UNCHANGED <<cache, stored, now, nextId, heap, otherTab, inflight, backend>>

\* no second tab is open
NoTab == [name |-> "none", cache |-> Null, watchers |-> <<>>]

\* the adapter in use is LocalStorageAdapter, and no other holds a Document
NoBackend == [name |-> "local", other |-> Null]

\* nothing was started without being awaited
NoFlight == [queue |-> <<>>, done |-> <<>>, base |-> Null]

\* the cache is one object, and nothing is kept
NoHeap == [cache |-> {1}, held |-> {}]

Used == heap.cache \cup UNION {h.refs : h \in heap.held}

\* a name no object in play has
Fresh(used) ==
  CHOOSE n \in 1..MaxRefs : n \notin used /\ \A m \in 1..(n - 1) : m \in used

RefsLeft(k) == Cardinality(Used) + k <= MaxRefs

\* faulty variant: the object itself is handed on
cloneRefs_Shared(refs, fresh) == refs

\* deepClone(obj): a new object that shares nothing with obj
cloneRefs(refs, fresh) == {fresh}

Keep(from, kind, refs) == [from |-> from, kind |-> kind, refs |-> refs]

HeldRoom == Cardinality(heap.held) < MaxHeld

\* loadDB(), the page keeps the Document it gets
KeepLoaded ==
  /\ HeldRoom /\ RefsLeft(1)
  /\ \E res \in {loadDBRun(StartRun(0), FALSE)} :
       Effects(res.run, NoOp("loadDB"))
  /\ heap' = [heap EXCEPT
                !.held = @ \cup {Keep("loadDB", "doc", cloneRefs(heap.cache, Fresh(Used)))}]

\* getAllProducts(), the page keeps the list it gets: the products of the
\* Document _getCollection loaded
KeepCollection ==
  /\ HeldRoom /\ RefsLeft(1)
  /\ Effects(StartRun(0), NoOp("getAllProducts"))
  /\ heap' = [heap EXCEPT
                !.held = @ \cup {Keep("getAllProducts", "products",
                                       cloneRefs(heap.cache, Fresh(Used)))}]

\* saveDB(dbObj) with a Document the page built and keeps; with keep =
\* "watcher" it is the first watcher that keeps the Document it is handed
KeepSaved(dbObj, keep) ==
  /\ HeldRoom /\ RefsLeft(3)
  /\ keep = "watcher" => watchers # <<>>
  /\ \E r \in {saveDB(StartRun(0), dbObj)} :
       Effects(r, Op("saveDB", NoId, dbObj, r, FALSE, NoId))
  /\ LET arg == Fresh(Used)
         new == cloneRefs({arg}, Fresh(Used \cup {arg}))
         seen == cloneRefs(new, Fresh(Used \cup {arg} \cup new))
     IN  heap' = [cache |-> new,
                  held |-> heap.held \cup
                           {IF keep = "watcher" THEN Keep("watcher", "doc", seen)
                            ELSE Keep("saveDB", "doc", {arg})}]

\* addProduct(productData), the page keeps the record it gets: the record
\* pushed to the list of one loaded Document and saved inside another
KeepAdded(productData) ==
  /\ HeldRoom /\ RefsLeft(4)
  /\ Len(cache.products) < MaxProducts
  /\ IdsLeft
  /\ \E res \in {addProductRun(StartRun(0), productData)} :
       Effects(res.run,
               Op("addProduct", NoId, productData, res.run, FALSE, res.product.id))
  /\ LET list == cloneRefs(heap.cache, Fresh(Used))
         record == Fresh(Used \cup list)
         db == cloneRefs(heap.cache, Fresh(Used \cup list \cup {record}))
         saved == db \cup list \cup {record}
     IN  heap' = [cache |-> cloneRefs(saved, Fresh(Used \cup saved)),
                  held |-> heap.held \cup {Keep("addProduct", "products", {record})}]

\* what a change made through a kept object does to the object it is part of
Mutated(doc, kind) ==
  IF kind = "doc" THEN [doc EXCEPT !.users = Append(@, [name |-> "mutated"])]
  ELSE [doc EXCEPT !.products = Append(@, [name |-> "mutated"])]

\* the page, or the watcher, changes an object it kept
Mutate(h) ==
  /\ h \in heap.held
  /\ cache' = IF h.refs \cap heap.cache # {} THEN Mutated(cache, h.kind) ELSE cache
  /\ log' = <<>>
  /\ last' = [NoOp("mutate") EXCEPT !.data = [from |-> h.from]]
  /\ UNCHANGED <<stored, watchers, now, nextId, heap, otherTab, inflight, backend>>

\* a kept object is dropped
Forget(h) ==
  /\ h \in heap.held
  /\ heap' = [heap EXCEPT !.held = @ \ {h}]
  /\ log' = <<>>
  /\ last' = NoOp("forget")
  /\ UNCHANGED <<cache, stored, watchers, now, nextId, otherTab, inflight, backend>>

\* tiaUtils.convertUnits called by a page: the state keeps call and result
ConvertUnits(quantity, fromUnit, toUnit, piecesPerBox, sftPerBox) ==
  /\ last' = [NoOp("convertUnits") EXCEPT
                !.data = [quantity |-> quantity, fromUnit |-> fromUnit,
                          toUnit |-> toUnit, piecesPerBox |-> piecesPerBox,
                          sftPerBox |-> sftPerBox,
                          result |-> convertUnits(quantity, fromUnit, toUnit,
                                                  piecesPerBox, sftPerBox)]]
  /\ log' = <<>>
  /\ UNCHANGED <<cache, stored, watchers, now, nextId, heap, otherTab, inflight, backend>>

\* the three rounding lines of the reconciliation, run once more on a triple
RoundAgain ==
  /\ last' = [NoOp("round") EXCEPT
                !.data = [given |-> last.data.given,
                          stock |-> RoundStock(last.data.stock),
                          rounds |-> last.data.rounds + 1]]
  /\ log' = <<>>
  /\ UNCHANGED <<cache, stored, watchers, now, nextId, heap, otherTab, inflight, backend>>

(***************************************************************************)
(* Operations started and not awaited.  Every await of the code ends a     *)
(* job; the continuation is queued behind the jobs already waiting.  An    *)
(* operation reads the cache where it calls loadDB, before the await.      *)
(*   await _getCollection(name):  the caller reads the cache; job "get"    *)
(*     (the rest of _getCollection) hands the list to the caller's next    *)
(*     job.                                                                *)
(*   await _saveCollection(name, list):  the caller reads the cache; job   *)
(*     "put" sets the list and runs saveDB up to its await: the adapter    *)
(*     has saved.  It queues "sd", the rest of saveDB (cache, watchers),   *)
(*     and "rt": _saveCollection returns the promise of saveDB, which      *)
(*     takes two more jobs ("rt", "rs") to settle before the caller's next *)
(*     job runs.                                                           *)
(***************************************************************************)
NewJob(op, args) ==
  [task |-> Len(inflight.queue) + 1, op |-> op, args |-> args, pc |-> "new",
   after |-> "", name |-> "", db |-> Null, coll |-> <<>>, products |-> <<>>,
   i |-> 0, idx |-> 0, record |-> Null]

\* await _getCollection(name), from the call to the await inside it
AwaitGet(j, name, after) ==
  [j EXCEPT !.pc = "get", !.after = after, !.name = name, !.db = deepClone(cache)]

\* await _saveCollection(name, collection), from the call to the await inside it
AwaitSave(j, name, collection, after) ==
  [j EXCEPT !.pc = "put", !.after = after, !.name = name, !.coll = collection,
            !.db = deepClone(cache)]

\* what a job leaves: the jobs it queues, the state, the operations it ends
Outcome(push, newStored, newCache, events, ids, ended) ==
  [push |-> push, stored |-> newStored, cache |-> newCache, log |-> events,
   nextId |-> ids, done |-> ended]

\* a job that only queues the next job of its operation
Continue(j) == Outcome(<<j>>, stored, cache, <<>>, nextId, <<>>)

\* the operation of the job settles
Settle(j, result) ==
  Outcome(<<>>, stored, cache, <<>>, nextId,
          <<[op |-> j.op, args |-> j.args, result |-> result,
             returned |-> IF j.record = Null THEN NoId ELSE j.record.id]>>)

\* the sale loop from item i on, up to its next await
RECURSIVE SaleLoopJob(_, _, _)
SaleLoopJob(j, products, i) ==
  IF i > Len(j.record.items)
  THEN AwaitSave([j EXCEPT !.products = products], "products", products, "rc4")
  ELSE LET item == j.record.items[i]
           idx == FindIndex(products, item.productId)
       IN  IF idx = 0 THEN SaleLoopJob(j, products, i + 1)
           ELSE LET stock == SaleStock(products[idx].currentStock, item)
                    products2 == [products EXCEPT
                                    ![idx] = Assign(@, [currentStock |-> stock])]
                IN  IF SaleNeedsAlert(stock, products[idx].minStock)
                    THEN AwaitGet([j EXCEPT !.products = products2, !.i = i,
                                            !.idx = idx], "alerts", "rc2")
                    ELSE SaleLoopJob(j, products2, i + 1)

\* _saveCollection after its await: db[name] = collection, then saveDB(db)
\* up to its await
RunPut(j) ==
  LET db == [j.db EXCEPT ![j.name] = j.coll]
  IN  Outcome(<<[j EXCEPT !.pc = "sd", !.db = db], [j EXCEPT !.pc = "rt"]>>,
              AdapterSave(db), cache, <<>>, nextId, <<>>)

\* one job, by the place its operation is at
RunOf(j) ==
  CASE j.pc = "get" -> Continue([j EXCEPT !.pc = j.after, !.coll = j.db[j.name]])
    [] j.pc = "put" -> RunPut(j)
    \* saveDB after its await: the cache is replaced, the watchers are called
    [] j.pc = "sd" ->
         LET events == <<[kind |-> "save", fn |-> "", pos |-> 0, doc |-> NoKeys,
                          threw |-> FALSE]>> \o NotifyWatchers(deepClone(j.db))
         IN  Outcome(WatcherJobs(events), stored, deepClone(j.db), events,
                     nextId, <<>>)
    \* an async watcher after its first await, and after its second
    [] j.pc = "wt" -> Continue([j EXCEPT !.pc = "wr"])
    [] j.pc = "wr" ->
         Outcome(<<>>, stored, cache,
                 <<[kind |-> "watched", fn |-> j.args.fn, pos |-> j.args.pos,
                    doc |-> NoKeys, threw |-> FALSE]>>, nextId, <<>>)
    [] j.pc = "rt" -> Continue([j EXCEPT !.pc = "rs"])
    [] j.pc = "rs" -> Continue([j EXCEPT !.pc = j.after])
    \* addProduct after await _getCollection
    [] j.pc = "ap1" ->
         LET product == Assign(ProductDefaults(generateId("prod", nextId)), j.args.data)
         IN  Outcome(<<AwaitSave([j EXCEPT !.record = product], "products",
                                 Append(j.coll, product), "ap2")>>,
                     stored, cache, <<>>, nextId + 1, <<>>)
    [] j.pc = "ap2" -> Settle(j, "ok")
    \* updateProduct after await _getCollection
    [] j.pc = "up1" ->
         LET idx == FindIndex(j.coll, j.args.id)
         IN  IF idx = 0 THEN Settle(j, "rejected")
             ELSE Continue(AwaitSave([j EXCEPT !.record = j.coll[idx]], "products",
                             [j.coll EXCEPT ![idx] =
                                Assign(Assign(@, j.args.updates),
                                       [dateUpdated |-> nowISO])], "up2"))
    [] j.pc = "up2" -> Settle(j, "ok")
    \* addSale after await _getCollection
    [] j.pc = "as1" ->
         LET sale == Assign([id |-> generateId("sale", nextId), dateTime |-> nowISO,
                             items |-> <<>>], j.args.data)
         IN  Outcome(<<AwaitSave([j EXCEPT !.record = sale], "sales",
                                 Append(j.coll, sale), "as2")>>,
                     stored, cache, <<>>, nextId + 1, <<>>)
    \* addSale after the save of its record: _applyStockChangesFromSale
    [] j.pc = "as2" -> Continue(AwaitGet(j, "products", "rc1"))
    [] j.pc = "rc1" -> Continue(SaleLoopJob(j, j.coll, 1))
    \* the reconciliation after await _getCollection('alerts')
    [] j.pc = "rc2" ->
         LET product == j.products[j.idx]
         IN  IF HasUnresolved(j.coll, product.id)
             THEN Continue(SaleLoopJob(j, j.products, j.i + 1))
             ELSE Outcome(<<AwaitSave(j, "alerts",
                                      Append(j.coll,
                                             SaleAlert(generateId("alert", nextId),
                                                       product, product.minStock)),
                                      "rc3")>>,
                          stored, cache, <<>>, nextId + 1, <<>>)
    [] j.pc = "rc3" -> Continue(SaleLoopJob(j, j.products, j.i + 1))
    \* the reconciliation has returned: addSale goes on in a job of its own
    [] j.pc = "rc4" -> Continue([j EXCEPT !.pc = "as3"])
    [] j.pc = "as3" -> Settle(j, "ok")

\* the job at the head of the queue runs
RunJob ==
  /\ inflight.queue # <<>>
  /\ LET j == Head(inflight.queue)
         out == RunOf(j)
     IN  /\ stored' = out.stored
         /\ cache' = out.cache
         /\ log' = out.log
         /\ nextId' = out.nextId
         /\ inflight' = [inflight EXCEPT !.queue = Tail(@) \o out.push,
                                         !.done = @ \o out.done]
         /\ last' = [NoOp("job") EXCEPT !.data = [task |-> j.task, pc |-> j.pc]]
  /\ UNCHANGED <<watchers, now, heap, otherTab, backend>>

\* the page may start an operation while those it started in the same run
\* of its code have not gone past their first await
CanStart ==
  /\ Len(inflight.queue) < MaxInFlight
  /\ \A n \in 1..Len(inflight.queue) :
       inflight.queue[n].pc = "get" /\ inflight.queue[n].after \in {"ap1", "up1", "as1"}
  /\ nextId + 2 * (Len(inflight.queue) + 1) <= MaxIds + 1

InFlight(op) ==
  Cardinality({n \in 1..Len(inflight.queue) : inflight.queue[n].op = op})

\* the call of an operation, up to its first await; the promise is not awaited
Start(j) ==
  /\ CanStart
  /\ inflight' = IF inflight.queue = <<>>
                 THEN [queue |-> <<j>>, done |-> <<>>, base |-> cache]
                 ELSE [inflight EXCEPT !.queue = Append(@, j)]
  /\ log' = <<>>
  /\ last' = [NoOp("start") EXCEPT !.data = [task |-> j.task, pc |-> j.op]]
  /\ UNCHANGED <<cache, stored, watchers, now, nextId, heap, otherTab, backend>>

StartAddProduct(productData) ==
  /\ Len(cache.products) + InFlight("addProduct") < MaxProducts
  /\ Start(AwaitGet(NewJob("addProduct", [data |-> productData]), "products", "ap1"))

StartUpdateProduct(productId, updates) ==
  Start(AwaitGet(NewJob("updateProduct", [id |-> productId, updates |-> updates]),
                 "products", "up1"))

StartAddSale(items) ==
  /\ Len(cache.sales) + InFlight("addSale") < MaxTxns
  /\ Start(AwaitGet(NewJob("addSale", [data |-> [items |-> items]]), "sales", "as1"))

\* the user turns to the other tab: its controller has its own cache and
\* its own watchers, and the same storage key
SwitchTab ==
  /\ otherTab # NoTab
  /\ cache' = otherTab.cache
  /\ watchers' = otherTab.watchers
  /\ otherTab' = [name |-> IF otherTab.name = "A" THEN "B" ELSE "A",
                  cache |-> cache, watchers |-> watchers]
  /\ log' = <<>>
  /\ last' = NoOp("switchTab")
  /\ UNCHANGED <<stored, now, nextId, heap, inflight, backend>>

\* setAdapter(newAdapterNameOrObj): 'local', or the adapter object b; the
\* adapter is replaced, and nothing else
SetAdapter(name) ==
  /\ stored' = IF name = backend.name THEN stored ELSE backend.other
  /\ backend' = IF name = backend.name THEN backend
                ELSE [name |-> name, other |-> stored]
  /\ log' = <<>>
  /\ last' = [NoOp("setAdapter") EXCEPT
                !.data = [adapter |-> name, switched |-> name # backend.name]]
  /\ UNCHANGED <<cache, watchers, now, nextId, heap, otherTab, inflight>>

\* the clock of the page advances
Tick ==
  /\ now < MaxTime
  /\ now' = now + 1
  /\ log' = <<>>
  /\ last' = NoOp("tick")
  /\ UNCHANGED <<cache, stored, watchers, nextId, heap, otherTab, inflight, backend>>

(***************************************************************************)
(* Initial states                                                          *)
(***************************************************************************)
\* the state once the script has run: a fresh Document, loaded into the cache
Init ==
  /\ now = 1
  /\ cache = emptyDB
  /\ stored = emptyDB
  /\ watchers = <<>>
  /\ log = <<>>
  /\ nextId = 1
  /\ last = NoOp("init")
  /\ heap = NoHeap
  /\ otherTab = NoTab
  /\ inflight = NoFlight
  /\ backend = NoBackend

FullStock == [boxes |-> Unit(5), pieces |-> Unit(5), sft |-> Unit(5)]

\* a stock entered with more than three decimals in one counter
FineStock == [boxes |-> 0, pieces |-> 4, sft |-> 0]

\* the Document after two addProduct calls on the fresh Document: a stocked
\* product with a threshold, and one without threshold
StockedDB ==
  LET r0 == [cache |-> emptyDB, stored |-> emptyDB, log |-> <<>>, nextId |-> 1,
             nsave |-> 0, failAt |-> 0, thrown |-> FALSE]
      r1 == addProductRun(r0, [currentStock |-> FullStock, minStock |-> Unit(2)]).run
  IN  addProductRun(r1, [currentStock |-> FineStock]).run

StockInit ==
  /\ now = 1
  /\ watchers = <<>>
  /\ log = <<>>
  /\ cache = StockedDB.cache
  /\ stored = StockedDB.stored
  /\ nextId = StockedDB.nextId
  /\ last = NoOp("init")
  /\ heap = NoHeap
  /\ otherTab = NoTab
  /\ inflight = NoFlight
  /\ backend = NoBackend

\* the script has just been evaluated: no cache yet, and under the storage
\* key nothing, or the Document a previous session stored
BootInit ==
  /\ now = 1
  /\ watchers = <<>>
  /\ log = <<>>
  /\ cache = Null
  /\ stored \in {Null, StockedDB.stored}
  /\ nextId = StockedDB.nextId
  /\ last = NoOp("init")
  /\ heap = NoHeap
  /\ otherTab = NoTab
  /\ inflight = NoFlight
  /\ backend = NoBackend

(***************************************************************************)
(* Spec: sales, purchases and alerts over a stocked Document               *)
(***************************************************************************)
\* the line items the pages send: whole boxes, and a sub-thousandth of area
ItemKinds == {[unitType |-> "box", quantity |-> Unit(4)],
              [unitType |-> "sft", quantity |-> 4]}

Items ==
  {[productId |-> p, unitType |-> k.unitType, quantity |-> k.quantity] :
     p \in ProductIds \cup {MissingId}, k \in ItemKinds}

ItemLists == UNION {[1..n -> Items] : n \in 1..MaxItems}

\* the adapter saves a sale or a purchase makes when none of them throws
SaleSaves(items) == addSaleRun(StartRun(0), [items |-> items]).run.nsave

PurchaseSaves(items) == addPurchaseRun(StartRun(0), [items |-> items]).run.nsave

Next ==
  \/ TxnRoom /\ \E items \in ItemLists : \E failAt \in Failures(SaleSaves(items)) :
                   AddSale(items, failAt)
  \/ TxnRoom /\ \E items \in ItemLists : \E failAt \in Failures(PurchaseSaves(items)) :
                   AddPurchase(items, failAt)

Spec == StockInit /\ [][Next]_vars

(***************************************************************************)
(* SpecAlerts: alerts added and resolved by hand, among one-item sales and *)
(* purchases                                                               *)
(***************************************************************************)
OneItemLists ==
  {<<[productId |-> p, unitType |-> "box", quantity |-> Unit(4)]>> : p \in ProductIds}

NextAlerts ==
  \/ IdsLeft /\ \E p \in ProductIds : AddAlert(p, 0)
  \/ \E a \in AlertIds \cup {MissingId} : ResolveAlert(a, 0)
  \/ TxnRoom /\ \E items \in OneItemLists : \E failAt \in Failures(SaleSaves(items)) :
                   AddSale(items, failAt)
  \/ TxnRoom /\ \E items \in OneItemLists : \E failAt \in Failures(PurchaseSaves(items)) :
                   AddPurchase(items, failAt)

SpecAlerts == StockInit /\ [][NextAlerts]_vars

(***************************************************************************)
(* SpecWatch: watchers registered and removed, among saves of the Document *)
(***************************************************************************)
\* the Documents a page hands to saveDB: what it loaded, or a stocked one
SaveInputs == {loadDB(StartRun(0)), [emptyDB EXCEPT !.products = StockedDB.cache.products]}

NextWatch ==
  \/ \E fn \in Callbacks : OnChange(fn)
  \/ \E fn \in Callbacks : Unsubscribe(fn)
  \/ \E d \in SaveInputs : \E failAt \in Failures(1) : SaveDB(d, failAt)
  \/ TxnRoom /\ \E items \in OneItemLists : \E failAt \in Failures(SaleSaves(items)) :
                   AddSale(items, failAt)

SpecWatch == Init /\ [][NextWatch]_vars

(***************************************************************************)
(* SpecCrud: products added, patched and deleted while the clock advances  *)
(***************************************************************************)
\* a copy of the first product as a page holds it, id included
KeptCopy == [name |-> "tile", id |-> generateId("prod", 1)]

ProductInputs == {NoKeys, [minStock |-> Unit(2)], KeptCopy}

\* patches: empty, a known key, a new key, and a caller-made timestamp
Patches ==
  {NoKeys, [minStock |-> Unit(1)], [name |-> "tile"],
   [minStock |-> Unit(3), dateUpdated |-> 0]}

NextCrud ==
  \/ \E d \in ProductInputs : \E failAt \in Failures(1) : AddProduct(d, failAt)
  \/ \E p \in ProductIds \cup {MissingId} : \E u \in Patches :
       \E failAt \in Failures(1) : UpdateProduct(p, u, failAt)
  \/ Tick

SpecCrud == Init /\ [][NextCrud]_vars

(***************************************************************************)
(* SpecDelete: products deleted among alerts and sales that name them; a   *)
(* deleted product may be added again from a copy the caller kept          *)
(***************************************************************************)
NextDelete ==
  \/ \E p \in ProductIds \cup {MissingId} : \E failAt \in Failures(1) :
       DeleteProduct(p, failAt)
  \/ AddProduct(KeptCopy, 0)
  \/ \E p \in ProductIds : AddAlert(p, 0)
  \/ TxnRoom /\ \E items \in OneItemLists : AddSale(items, 0)

SpecDelete == StockInit /\ [][NextDelete]_vars

(***************************************************************************)
(* SpecImport: texts imported, replacing or merging, over a stocked        *)
(* Document with alerts and a watcher                                      *)
(***************************************************************************)
NewItem == [id |-> generateId("prod", 3), name |-> "new"]

\* an incoming product with the id of the first product of the store
Clash == [id |-> generateId("prod", 1), name |-> "other"]

Twin == [id |-> generateId("prod", 4), name |-> "twin"]

\* the texts a user picks: nothing, no JSON, null, and objects with lists
Texts ==
  {EmptyText, BrokenText, JSONstringify(JsonNull),
   JSONstringify(JsonObjectOf([products |-> <<NewItem, Clash>>], {})),
   JSONstringify(JsonObjectOf([products |-> <<Twin, Twin>>], {})),
   JSONstringify(JsonObjectOf([alerts |-> <<>>], {"products"})),
   JSONstringify(JsonObjectOf([products |-> <<[name |-> "anonymous"]>>], {}))}

\* the text of the exportDB call just made, if there is one
Exported == IF last.op = "exportDB" THEN {last.data.text} ELSE {}

NextImport ==
  \/ \E t \in Texts : \E merge \in BOOLEAN : ImportDB(t, merge, 0)
  \/ ExportDB
  \/ \E t \in Exported : ImportDB(t, FALSE, 0)
  \/ \E p \in ProductIds : AddAlert(p, 0)
  \/ OnChange("good")

SpecImport == StockInit /\ [][NextImport]_vars

(***************************************************************************)
(* SpecFail: every operation that saves, with its first adapter save       *)
(* failing, over a stocked Document that deletions and alerts change       *)
(***************************************************************************)
NextFail ==
  \/ \E d \in SaveInputs : SaveDB(d, 1)
  \/ AddProduct(NoKeys, 1)
  \/ \E p \in ProductIds : UpdateProduct(p, [minStock |-> Unit(1)], 1)
  \/ \E p \in ProductIds : \E failAt \in Failures(1) : DeleteProduct(p, failAt)
  \/ \E p \in ProductIds : \E failAt \in Failures(1) : AddAlert(p, failAt)
  \/ \E a \in AlertIds : ResolveAlert(a, 1)
  \/ \E merge \in BOOLEAN :
       ImportDB(JSONstringify(JsonObjectOf([products |-> <<NewItem>>], {})), merge, 1)
  \/ TxnRoom /\ \E items \in OneItemLists : AddSale(items, 1)
  \/ TxnRoom /\ \E items \in OneItemLists : AddPurchase(items, 1)

SpecFail == StockInit /\ [][NextFail]_vars

(***************************************************************************)
(* SpecLoad: loads, forced or not, among saves and clears, with watchers,  *)
(* from the moment the script is evaluated                                 *)
(***************************************************************************)
\* Documents a page builds and saves: one with a product, one whose product
\* has a name that is undefined
PageDocs ==
  {[emptyDB EXCEPT !.products = <<[id |-> generateId("prod", 1), minStock |-> 0]>>],
   [emptyDB EXCEPT !.products = <<[id |-> generateId("prod", 2), name |-> Undefined]>>]}

NextLoad ==
  \/ \E force \in BOOLEAN : LoadDB(force)
  \/ \E d \in PageDocs : \E failAt \in Failures(1) : SaveDB(d, failAt)
  \/ ClearDB
  \/ \E fn \in Callbacks : OnChange(fn)
  \/ Tick

SpecLoad == BootInit /\ [][NextLoad]_vars

(***************************************************************************)
(* SpecTabs: two tabs on one storage key, each loaded from the stocked     *)
(* Document; the user works in one, turns to the other, and may reload     *)
(***************************************************************************)
TabsInit ==
  /\ now = 1
  /\ watchers = <<>>
  /\ log = <<>>
  /\ cache = StockedDB.cache
  /\ stored = StockedDB.stored
  /\ nextId = StockedDB.nextId
  /\ last = NoOp("init")
  /\ heap = NoHeap
  /\ otherTab = [name |-> "A", cache |-> StockedDB.cache, watchers |-> <<>>]
  /\ inflight = NoFlight
  /\ backend = NoBackend

\* what the user does in either tab concerns the first product, and a tab
\* that shows an alert adds no other
FirstProduct == ProductIds \cap {KeptCopy.id}

NextTabs ==
  \/ SwitchTab
  \/ LoadDB(TRUE)
  \/ cache.alerts = <<>> /\ \E p \in FirstProduct : AddAlert(p, 0)
  \/ \E p \in FirstProduct : UpdateProduct(p, [minStock |-> Unit(6)], 0)
  \/ \E a \in AlertIds : ResolveAlert(a, 0)
  \/ watchers = <<>> /\ OnChange("good")

SpecTabs == TabsInit /\ [][NextTabs]_vars

(***************************************************************************)
(* SpecRestock: one-item sales of boxes, and purchases of boxes or pieces  *)
(* by the box or by the half box, among alerts added by hand               *)
(***************************************************************************)
HalfUnit == TicksPerUnit \div 2

RestockLists ==
  {<<[productId |-> p, unitType |-> u, quantity |-> q]>> :
     p \in ProductIds, u \in {"box", "piece"}, q \in {HalfUnit, Unit(4)}}

NextRestock ==
  \/ TxnRoom /\ \E items \in OneItemLists : AddSale(items, 0)
  \/ TxnRoom /\ \E items \in RestockLists : AddPurchase(items, 0)
  \/ cache.alerts = <<>> /\ IdsLeft /\ \E p \in ProductIds : AddAlert(p, 0)

SpecRestock == StockInit /\ [][NextRestock]_vars

(***************************************************************************)
(* SpecStamp: a page loads the Document and saves it back, as it is or     *)
(* with no products, while the clock advances and watchers register *)
(***************************************************************************)
LoadedDocs ==
  {loadDB(StartRun(0)), [loadDB(StartRun(0)) EXCEPT !.products = <<>>]}

NextStamp ==
  \/ \E d \in LoadedDocs : SaveDB(d, 0)
  \/ TxnRoom /\ \E items \in OneItemLists : AddSale(items, 0)
  \/ \E fn \in Callbacks : OnChange(fn)
  \/ Tick

SpecStamp == StockInit /\ [][NextStamp]_vars

(***************************************************************************)
(* SpecAsync: a page starts products, patches and sales without awaiting   *)
(* them, up to MaxInFlight at a time, and the job queue runs               *)
(***************************************************************************)
StockedInput == [currentStock |-> FullStock, minStock |-> Unit(2)]

\* the product the page has open: the first of the list
OpenProduct == {cache.products[i].id : i \in {i \in 1..Len(cache.products) : i = 1}}

NextAsync ==
  \/ StartAddProduct(StockedInput)
  \/ \E p \in OpenProduct : StartUpdateProduct(p, [minStock |-> Unit(1)])
  \/ \E p \in OpenProduct :
       StartAddSale(<<[productId |-> p, unitType |-> "box", quantity |-> Unit(4)]>>)
  \/ RunJob
  \/ watchers = <<>> /\ cache.products = <<>> /\ inflight.queue = <<>> /\ OnChange("good")

SpecAsync == Init /\ [][NextAsync]_vars

(***************************************************************************)
(* SpecSlow: watchers that return at once and watchers that are async      *)
(* functions, among saves of the Document; the jobs the async watchers     *)
(* leave run afterwards                                                    *)
(***************************************************************************)
NextSlow ==
  \/ \E fn \in {"good", "slow"} : OnChange(fn)
  \/ Len(inflight.queue) < MaxInFlight /\ \E d \in SaveInputs : SaveDB(d, 0)
  \/ Len(inflight.queue) < MaxInFlight /\ AddProduct(StockedInput, 0)
  \/ RunJob

SpecSlow == Init /\ [][NextSlow]_vars

(***************************************************************************)
(* SpecAdapter: the page has loaded the empty Document of the local        *)
(* adapter; an adapter object b of the same kind holds a Document with one *)
(* product; the page switches between the two, loads and adds products     *)
(***************************************************************************)
RemoteDoc ==
  [emptyDB EXCEPT !.products =
     <<[id |-> generateId("prod", 5), name |-> "remote",
        currentStock |-> FullStock, minStock |-> 0]>>]

AdapterInit ==
  /\ now = 1
  /\ watchers = <<>>
  /\ log = <<>>
  /\ cache = emptyDB
  /\ stored = emptyDB
  /\ nextId = 1
  /\ last = NoOp("init")
  /\ heap = NoHeap
  /\ otherTab = NoTab
  /\ inflight = NoFlight
  /\ backend = [name |-> "local", other |-> RemoteDoc]

NextAdapter ==
  \/ \E name \in {"local", "b"} : SetAdapter(name)
  \/ \E force \in BOOLEAN : LoadDB(force)
  \/ AddProduct(StockedInput, 0)
  \/ Tick

SpecAdapter == AdapterInit /\ [][NextAdapter]_vars

(***************************************************************************)
(* SpecRound: the rounding step of the reconciliation, applied again and   *)
(* again to a stock triple of any kind                                     *)
(***************************************************************************)
\* counters in ticks: below zero, at and around the half thousandth, whole
FineCounters ==
  {0 - Unit(1) - 5, 0 - 15, 0 - 5, 0 - 4, 0, 4, 5, 14, Unit(2) + 6}

RoundInit ==
  /\ now = 1
  /\ cache = emptyDB
  /\ stored = emptyDB
  /\ watchers = <<>>
  /\ log = <<>>
  /\ nextId = 1
  /\ heap = NoHeap
  /\ otherTab = NoTab
  /\ inflight = NoFlight
  /\ backend = NoBackend
  /\ \E stock \in [DOMAIN ZeroStock -> FineCounters] :
       last = [NoOp("page") EXCEPT
                 !.data = [given |-> stock, stock |-> stock, rounds |-> 0]]

NextRound == last.data.rounds < MaxRounds /\ RoundAgain

SpecRound == RoundInit /\ [][NextRound]_vars

(***************************************************************************)
(* SpecConvert: convertUnits called with quantities, unit names and        *)
(* factors of every kind                                                   *)
(***************************************************************************)
Quantities == {Num(Unit(10)), Num(Unit(1) + 5), Num(0 - Unit(3)), NaN}

ConvertNames == {"box", " box ", "Piece", "pcs", "SFT", "sqft", "kg", ""}

\* a factor: none given, zero, positive, negative
PieceFactors == {NaN, Num(0), Num(Tenths(4)), Num(0 - Tenths(4))}

SftFactors == {NaN, Num(0), Num(Tenths(50)), Num(Tenths(12) + 5), Num(0 - Tenths(50))}

\* a page is about to call convertUnits with arguments of its choice
ConvertInit ==
  /\ now = 1
  /\ cache = emptyDB
  /\ stored = emptyDB
  /\ watchers = <<>>
  /\ log = <<>>
  /\ nextId = 1
  /\ heap = NoHeap
  /\ otherTab = NoTab
  /\ inflight = NoFlight
  /\ backend = NoBackend
  /\ \E q \in Quantities : \E from \in ConvertNames : \E to \in ConvertNames :
       \E ppb \in PieceFactors : \E spb \in SftFactors :
         last = [NoOp("page") EXCEPT
                   !.data = [quantity |-> q, fromUnit |-> from, toUnit |-> to,
                             piecesPerBox |-> ppb, sftPerBox |-> spb]]

NextConvert ==
  /\ last.op = "page"
  /\ ConvertUnits(last.data.quantity, last.data.fromUnit, last.data.toUnit,
                  last.data.piecesPerBox, last.data.sftPerBox)

SpecConvert == ConvertInit /\ [][NextConvert]_vars

(***************************************************************************)
(* SpecLife: the life of the alerts among every operation on products,     *)
(* sales, purchases and alerts; the first product is the one the page      *)
(* patches, deletes and adds again from the copy it kept                   *)
(***************************************************************************)
NextLife ==
  \/ TxnRoom /\ \E items \in OneItemLists : AddSale(items, 0)
  \/ TxnRoom /\ \E items \in OneItemLists : AddPurchase(items, 0)
  \/ \E p \in ProductIds : AddAlert(p, 0)
  \/ \E a \in AlertIds : ResolveAlert(a, 0)
  \/ KeptCopy.id \notin ProductIds /\ AddProduct(KeptCopy, 0)
  \/ \E p \in ProductIds \cap {KeptCopy.id} : UpdateProduct(p, [minStock |-> Unit(6)], 0)
  \/ \E p \in ProductIds \cap {KeptCopy.id} : DeleteProduct(p, 0)

SpecLife == StockInit /\ [][NextLife]_vars

(***************************************************************************)
(* SpecUnits: one-item sales and purchases in the unit names a page may    *)
(* send                                                                    *)
(***************************************************************************)
UnitNames ==
  {"box", "Boxes", "piece", "pcs", "SFT", "sqft", "SqFt", "s.f.t", "S.F.T",
   "Square Feet", "kg", ""}

UnitItemLists ==
  {<<[productId |-> p, unitType |-> u, quantity |-> Unit(1)]>> :
     p \in ProductIds, u \in UnitNames}

NextUnits ==
  \/ TxnRoom /\ \E items \in UnitItemLists : AddSale(items, 0)
  \/ TxnRoom /\ \E items \in UnitItemLists : AddPurchase(items, 0)

SpecUnits == StockInit /\ [][NextUnits]_vars

(***************************************************************************)
(* SpecUndo: the sales and purchases of SpecUnits, and a page that takes a *)
(* sale back by purchasing the same items                                  *)
(***************************************************************************)
\* await addSale({items}); await addPurchase({items})
SellThenBuy(items) ==
  /\ Len(cache.sales) + Len(cache.purchases) + 2 <= MaxTxns
  /\ LET sold == addSaleRun(StartRun(0), [items |-> items]).run
         bought == addPurchaseRun([sold EXCEPT !.nsave = 0], [items |-> items]).run
     IN  Commit(bought, [NoOp("addSale;addPurchase") EXCEPT
                           !.data = [items |-> items, before |-> cache.products]])

NextUndo ==
  \/ TxnRoom /\ \E items \in UnitItemLists : AddSale(items, 0)
  \/ TxnRoom /\ \E items \in UnitItemLists : AddPurchase(items, 0)
  \/ \E items \in UnitItemLists : SellThenBuy(items)

SpecUndo == StockInit /\ [][NextUndo]_vars

(***************************************************************************)
(* SpecBoot: the same page operations, over whatever an earlier session,   *)
(* an earlier version or a user left under the storage key                 *)
(***************************************************************************)
OneAlert ==
  <<[id |-> generateId("alert", 3), productId |-> generateId("prod", 1),
     minRequired |-> Unit(2), alertDate |-> 0, resolved |-> FALSE]>>

OneUser == <<[name |-> "owner"]>>

\* a Document of the current version, with an alert and a user
CurrentDoc == [StockedDB.stored EXCEPT !.alerts = OneAlert, !.users = OneUser]

\* Documents to migrate: of an earlier version; without meta and without
\* sales and purchases; with a meta that names no version; and an object
\* with no property at all
OldDocs ==
  {[CurrentDoc EXCEPT !.meta = Assign(@, [version |-> 0])],
   [products |-> StockedDB.stored.products, alerts |-> OneAlert],
   [CurrentDoc EXCEPT !.meta = [createdAt |-> 0]],
   NoKeys}

StoredTexts == {Null, EmptyStored, Garbage, StoredNull, CurrentDoc} \cup OldDocs

AnyStoredInit ==
  /\ now = 1
  /\ watchers = <<>>
  /\ log = <<>>
  /\ cache = Null
  /\ stored \in StoredTexts
  /\ nextId = StockedDB.nextId
  /\ last = NoOp("init")
  /\ heap = NoHeap
  /\ otherTab = NoTab
  /\ inflight = NoFlight
  /\ backend = NoBackend

NextBoot ==
  \/ \E force \in BOOLEAN : LoadDB(force)
  \/ \E d \in PageDocs : \E failAt \in Failures(1) : SaveDB(d, failAt)
  \/ ClearDB
  \/ OnChange("good")
  \/ Tick

SpecBoot == AnyStoredInit /\ [][NextBoot]_vars

(***************************************************************************)
(* SpecAlias: pages and a watcher keep the objects the controller hands    *)
(* out or is handed, and change them later                                 *)
(***************************************************************************)
NextAlias ==
  \/ KeepLoaded
  \/ KeepCollection
  \/ \E d \in PageDocs : \E keep \in {"argument", "watcher"} : KeepSaved(d, keep)
  \/ KeepAdded(NoKeys)
  \/ \E h \in heap.held : Mutate(h)
  \/ \E h \in heap.held : Forget(h)
  \/ OnChange("good")

SpecAlias == Init /\ [][NextAlias]_vars

(***************************************************************************)
(* What the claims speak of                                                *)
(***************************************************************************)
Counters == {"boxes", "pieces", "sft"}

IsTxn(op) == op.op \in {"addSale", "addPurchase"}

\* the counter the item of a call selects
CounterOf(op, item) ==
  IF op.op = "addSale" THEN SaleCounter(item.unitType)
  ELSE PurchaseCounter(item.unitType)

\* the line items of a call that name the product at index i, first of its id
ItemsFor(op, products, i) ==
  {k \in 1..Len(op.data) :
     /\ op.data[k].productId = products[i].id
     /\ FindIndex(products, products[i].id) = i}

Unresolved(alerts, productId) ==
  {j \in 1..Len(alerts) : alerts[j].productId = productId /\ ~alerts[j].resolved}

AlertsOf(alerts, productId) ==
  {j \in 1..Len(alerts) : alerts[j].productId = productId}

AtOrBelow(stock, min) == \E c \in Counters : stock[c] <= min

AtOrAbove(stock, min) == \E c \in Counters : stock[c] >= min

\* a tick count with at most three decimals
ThreeDecimals(v) == v % (TicksPerUnit \div Thousand) = 0

\* the sum of the quantities of the items in ks
RECURSIVE SumQty(_, _)
SumQty(items, ks) ==
  IF ks = {} THEN 0
  ELSE LET k == CHOOSE k \in ks : TRUE
       IN  items[k].quantity + SumQty(items, ks \ {k})

(***************************************************************************)
(* C1: after an awaited addSale with an item for a product P that has a    *)
(* threshold and at most one unresolved alert, if a counter of P is at or  *)
(* below the threshold then P has exactly one unresolved alert: one was    *)
(* created if there was none, none was added if there was one (so a later  *)
(* sale never creates a second one).                                       *)
(***************************************************************************)
C1_Step ==
  (last'.op = "addSale" /\ last'.result = "ok" /\ last'.reconciled) =>
    \A i \in 1..Len(cache.products) :
      LET P == cache.products[i]
          before == Cardinality(Unresolved(cache.alerts, P.id))
      IN  ( /\ P.minStock > 0
            /\ before <= 1
            /\ ItemsFor(last', cache.products, i) # {}
            /\ AtOrBelow(cache'.products[i].currentStock, P.minStock) )
          => /\ Cardinality(Unresolved(cache'.alerts, P.id)) = 1
             /\ Cardinality(AlertsOf(cache'.alerts, P.id))
                  = Cardinality(AlertsOf(cache.alerts, P.id))
                    + (IF before = 0 THEN 1 ELSE 0)

C1_SaleCreatesOneAlert == [][C1_Step]_vars

\* a second sale on a product whose alert an earlier sale created
C1_Witness ==
  /\ last.op = "addSale" /\ last.reconciled
  /\ Len(cache.sales) = 2
  /\ \E i \in 1..Len(cache.products) :
       /\ ItemsFor(last, cache.products, i) # {}
       /\ AtOrBelow(cache.products[i].currentStock, cache.products[i].minStock)
       /\ \E j \in Unresolved(cache.alerts, cache.products[i].id) :
            cache.alerts[j].id[2] < last.returned[2]

(***************************************************************************)
(* C3: a counter of a product is its value before plus the purchased minus *)
(* the sold quantities of the items that name it with a recognised unit;   *)
(* it is not clamped at zero and no sale is rejected for lack of stock.    *)
(* As stated (C3_ExactSum) this ignores the rounding to three decimals     *)
(* after every item; it holds (C3_SumOfThreeDecimals) when the counter and *)
(* the quantities have at most three decimals.                             *)
(***************************************************************************)
Recognised(op, item) ==
  IF op.op = "addSale" THEN SaleRecognised(item.unitType)
  ELSE PurchaseRecognised(item.unitType)

\* the signed sum a call's items for product i bring to counter c
Delta(op, products, i, c) ==
  LET ks == {k \in ItemsFor(op, products, i) : CounterOf(op, op.data[k]) = c}
  IN  IF op.op = "addSale" THEN 0 - SumQty(op.data, ks) ELSE SumQty(op.data, ks)

AllRecognised(op, products, i) ==
  \A k \in ItemsFor(op, products, i) : Recognised(op, op.data[k])

C3_ExactStep ==
  (IsTxn(last') /\ last'.result = "ok" /\ last'.reconciled) =>
    \A i \in 1..Len(cache.products) :
      AllRecognised(last', cache.products, i) =>
        \A c \in Counters :
          cache'.products[i].currentStock[c]
            = cache.products[i].currentStock[c] + Delta(last', cache.products, i, c)

C3_ExactSum == [][C3_ExactStep]_vars

C3_ThreeDecimalStep ==
  /\ (IsTxn(last') /\ last'.result = "ok" /\ last'.reconciled) =>
       \A i \in 1..Len(cache.products) :
         AllRecognised(last', cache.products, i) =>
           \A c \in Counters :
             ( /\ ThreeDecimals(cache.products[i].currentStock[c])
               /\ \A k \in ItemsFor(last', cache.products, i) :
                    CounterOf(last', last'.data[k]) = c
                      => ThreeDecimals(last'.data[k].quantity) )
             => cache'.products[i].currentStock[c]
                  = cache.products[i].currentStock[c]
                    + Delta(last', cache.products, i, c)
  \* a call is rejected only when the save of its record threw
  /\ (IsTxn(last') /\ last'.result = "rejected") =>
       (Len(log') = 1 /\ log'[1].kind = "savefail")

C3_SumOfThreeDecimals == [][C3_ThreeDecimalStep]_vars

\* a sale that took a counter below zero
C3_Witness ==
  /\ last.op = "addSale" /\ last.result = "ok" /\ last.reconciled
  /\ \E i \in 1..Len(cache.products) : \E k \in ItemsFor(last, cache.products, i) :
       /\ ThreeDecimals(last.data[k].quantity)
       /\ cache.products[i].currentStock[SaleCounter(last.data[k].unitType)] < 0

(***************************************************************************)
(* C5: a line item whose productId matches no product does not make the    *)
(* call fail or cut the reconciliation short, changes no product, and      *)
(* leaves every other item of the call applied: the products and alerts    *)
(* afterwards are those of the same call made without the unmatched items. *)
(* (A call is rejected only when the save of its record throws: see C3.)   *)
(***************************************************************************)
Matched(item) == FindIndex(cache.products, item.productId) # 0

MatchedItems(items) == SelectSeq(items, Matched)

\* the Document the call leaves when it is made with these items instead
DocOf(op, items) ==
  IF op.op = "addSale" THEN addSaleRun(StartRun(0), [items |-> items]).run.cache
  ELSE addPurchaseRun(StartRun(0), [items |-> items]).run.cache

NoSaveFailed(events) == \A n \in 1..Len(events) : events[n].kind # "savefail"

C5_Step ==
  ( /\ IsTxn(last') /\ last'.result = "ok"
    /\ \E k \in 1..Len(last'.data) : ~Matched(last'.data[k]) ) =>
    \* the reconciliation is not cut short: it ends early only on a failed save
    /\ NoSaveFailed(log') => last'.reconciled
    /\ last'.reconciled =>
         /\ cache'.products = DocOf(last', MatchedItems(last'.data)).products
         /\ cache'.alerts = DocOf(last', MatchedItems(last'.data)).alerts
         /\ MatchedItems(last'.data) = <<>> => cache'.products = cache.products

C5_MissingProductSkipped == [][C5_Step]_vars

\* an unmatched first item, and a second item that changed its product
C5_Witness ==
  /\ IsTxn(last) /\ last.result = "ok" /\ last.reconciled
  /\ Len(cache.sales) + Len(cache.purchases) = 1
  /\ Len(last.data) = 2
  /\ FindIndex(cache.products, last.data[1].productId) = 0
  /\ \E i \in 1..Len(cache.products) :
       /\ cache.products[i].id = last.data[2].productId
       /\ cache.products[i].currentStock # StockedDB.cache.products[i].currentStock

(***************************************************************************)
(* C6: when the record of a sale or purchase was saved and a later save of *)
(* the reconciliation throws, the call still resolves with the record, the *)
(* record stays in its collection, cached and stored, and the caller sees  *)
(* no failure.                                                             *)
(***************************************************************************)
TxnCollection(op) == IF op.op = "addSale" THEN "sales" ELSE "purchases"

SavedThenFailed(events) ==
  /\ Len(events) >= 2
  /\ events[1].kind = "save"
  /\ events[Len(events)].kind = "savefail"

C6_Step ==
  (IsTxn(last') /\ SavedThenFailed(log')) =>
    LET name == TxnCollection(last')
    IN  /\ last'.result = "ok"
        /\ Len(cache'[name]) = Len(cache[name]) + 1
        /\ SubSeq(cache'[name], 1, Len(cache[name])) = cache[name]
        /\ cache'[name][Len(cache'[name])].id = last'.returned
        /\ cache'[name][Len(cache'[name])].items = last'.data
        /\ stored'[name] = cache'[name]

C6_RecordSurvivesReconciliationFailure == [][C6_Step]_vars

\* a sale whose reconciliation failed on the save of the products
C6_Witness ==
  /\ last.op = "addSale" /\ last.result = "ok" /\ ~last.reconciled
  /\ SavedThenFailed(log)
  /\ Len(cache.sales) = 1
  /\ cache.products = StockedDB.cache.products

(***************************************************************************)
(* C7: reconciling a line item for product P with unit U changes only P's  *)
(* counter for U.  As stated (C7_OtherCountersKept) this ignores that all  *)
(* three counters of P are rounded; what holds (C7_OtherCountersRounded):  *)
(* the other counters of P end with three decimals, within half a          *)
(* thousandth of what they were, and a product no item names is unchanged. *)
(***************************************************************************)
Targeted(op, products, i, c) ==
  \E k \in ItemsFor(op, products, i) : CounterOf(op, op.data[k]) = c

C7_KeptStep ==
  (IsTxn(last') /\ last'.result = "ok" /\ last'.reconciled) =>
    \A i \in 1..Len(cache.products) :
      /\ \A c \in Counters :
           ~Targeted(last', cache.products, i, c)
             => cache'.products[i].currentStock[c] = cache.products[i].currentStock[c]
      /\ ItemsFor(last', cache.products, i) = {} => cache'.products[i] = cache.products[i]

C7_OtherCountersKept == [][C7_KeptStep]_vars

C7_RoundedStep ==
  (IsTxn(last') /\ last'.result = "ok" /\ last'.reconciled) =>
    /\ Len(cache'.products) = Len(cache.products)
    /\ \A i \in 1..Len(cache.products) :
         /\ \A c \in Counters :
              ~Targeted(last', cache.products, i, c) =>
                LET was == cache.products[i].currentStock[c]
                    is == cache'.products[i].currentStock[c]
                IN  /\ ThreeDecimals(was) => is = was
                    /\ ThreeDecimals(is) \/ is = was
                    /\ 2 * (is - was) <= TicksPerUnit \div Thousand
                    /\ 2 * (was - is) <= TicksPerUnit \div Thousand
         /\ ItemsFor(last', cache.products, i) = {}
              => cache'.products[i] = cache.products[i]

C7_OtherCountersRounded == [][C7_RoundedStep]_vars

\* a purchase of boxes for the first product alone
C7_Witness ==
  /\ last.op = "addPurchase" /\ last.result = "ok" /\ last.reconciled
  /\ Len(last.data) = 1
  /\ last.data[1].productId = cache.products[1].id
  /\ last.data[1].unitType = "box"
  /\ cache.products[1].currentStock.boxes > cache.products[1].currentStock.pieces
  /\ cache.products[2] = StockedDB.cache.products[2]

(***************************************************************************)
(* C2: in every reachable state the alerts hold at most one unresolved     *)
(* alert per productId.                                                    *)
(***************************************************************************)
C2_OneUnresolvedPerProduct ==
  \A j, k \in 1..Len(cache.alerts) :
    ( /\ cache.alerts[j].productId = cache.alerts[k].productId
      /\ ~cache.alerts[j].resolved /\ ~cache.alerts[k].resolved )
    => j = k

(***************************************************************************)
(* C4: after an awaited addPurchase with an item for a product P that has  *)
(* a threshold, if a counter of P is at or above the threshold then no     *)
(* unresolved alert of P remains, every alert of P that was unresolved is  *)
(* resolved with a resolvedAt stamp, and no alert record was removed.      *)
(***************************************************************************)
C4_Step ==
  (last'.op = "addPurchase" /\ last'.result = "ok" /\ last'.reconciled) =>
    \A i \in 1..Len(cache.products) :
      LET P == cache.products[i]
      IN  ( /\ P.minStock > 0
            /\ ItemsFor(last', cache.products, i) # {}
            /\ AtOrAbove(cache'.products[i].currentStock, P.minStock) )
          => /\ Unresolved(cache'.alerts, P.id) = {}
             /\ Len(cache'.alerts) = Len(cache.alerts)
             /\ \A j \in 1..Len(cache.alerts) :
                  /\ cache'.alerts[j].id = cache.alerts[j].id
                  /\ j \in Unresolved(cache.alerts, P.id) =>
                       /\ cache'.alerts[j].resolved
                       /\ Has(cache'.alerts[j], "resolvedAt")
                       /\ cache'.alerts[j].resolvedAt = now
                  /\ j \notin Unresolved(cache.alerts, P.id) =>
                       cache'.alerts[j] = cache.alerts[j]

C4_PurchaseResolvesAlerts == [][C4_Step]_vars

\* a purchase that resolved two unresolved alerts of its product
C4_Witness ==
  /\ last.op = "addPurchase" /\ last.result = "ok" /\ last.reconciled
  /\ \E i \in 1..Len(cache.products) :
       /\ ItemsFor(last, cache.products, i) # {}
       /\ cache.products[i].minStock > 0
       /\ \E j, k \in AlertsOf(cache.alerts, cache.products[i].id) :
            /\ j # k
            /\ cache.alerts[j].resolved /\ Has(cache.alerts[j], "resolvedAt")
            /\ cache.alerts[k].resolved /\ Has(cache.alerts[k], "resolvedAt")

(***************************************************************************)
(* C8: every successful saveDB calls each registered watcher exactly once, *)
(* in registration order, after the adapter's save and with a copy of the  *)
(* newly cached state; a failed adapter save calls no watcher.             *)
(***************************************************************************)
\* the events from the save at n up to the next save
Group(events, n) ==
  {m \in (n + 1)..Len(events) :
     \A q \in (n + 1)..m : events[q].kind = "call"}

C8_WatchersNotifiedInOrder ==
  /\ \A n \in 1..Len(log) :
       /\ log[n].kind = "save" =>
            /\ Cardinality(Group(log, n)) = Len(watchers)
            /\ \A i \in 1..Len(watchers) :
                 /\ n + i <= Len(log)
                 /\ log[n + i].kind = "call"
                 /\ log[n + i].pos = i
                 /\ log[n + i].fn = watchers[i]
                 /\ log[n + i].doc = log[n + 1].doc
       /\ log[n].kind = "savefail" => n = Len(log)
       /\ log[n].kind = "call" => n > 1 /\ log[n - 1].kind \in {"save", "call"}
  \* the state handed to the watchers of the last save is the cached one
  /\ \A n \in 1..Len(log) :
       (log[n].kind = "call" /\ \A m \in (n + 1)..Len(log) : log[m].kind # "save")
         => log[n].doc = cache

\* a sale that saved twice with two watchers registered
C8_Witness ==
  /\ last.op = "addSale"
  /\ Len(watchers) = 2
  /\ Cardinality({n \in 1..Len(log) : log[n].kind = "save"}) >= 2
  /\ Cardinality({n \in 1..Len(log) : log[n].kind = "call"}) >= 4

(***************************************************************************)
(* C9: a watcher that throws does not fail saveDB: the call resolves, the  *)
(* cache holds the saved Document, and every other watcher, before and     *)
(* after the one that threw, is still called for that save.                *)
(***************************************************************************)
C9_ThrowingWatcherIsolated ==
  \A n \in 1..Len(log) :
    (log[n].kind = "call" /\ log[n].threw) =>
      LET s == n - log[n].pos
      IN  /\ s >= 1 /\ log[s].kind = "save"
          /\ \A i \in 1..Len(watchers) :
               s + i <= Len(log) /\ log[s + i].kind = "call" /\ log[s + i].fn = watchers[i]
          /\ last.op = "saveDB" => (last.result = "ok" /\ cache = last.data)

\* saveDB with a throwing watcher registered before a well-behaved one
C9_Witness ==
  /\ last.op = "saveDB" /\ last.result = "ok"
  /\ watchers = <<"bad", "good">>
  /\ Len(log) = 3
  /\ log[2].threw /\ log[3].kind = "call" /\ log[3].fn = "good"
  /\ cache.products # <<>>

(***************************************************************************)
(* C10: updateProduct with an id no product has rejects, saves nothing and *)
(* leaves the Document as it was.  With an existing id (and the save       *)
(* succeeding) the record keeps its place, takes the patch's value for     *)
(* every key of the patch, keeps its previous value for every other key,   *)
(* carries dateUpdated = the time of the call, and every other product is  *)
(* unchanged.  As the claim states it, the patch's value is taken for      *)
(* EVERY key of the patch, dateUpdated included.                           *)
(***************************************************************************)
UpdateFrame(i) ==
  /\ Len(cache'.products) = Len(cache.products)
  /\ \A j \in 1..Len(cache.products) : j # i => cache'.products[j] = cache.products[j]
  /\ stored'.products = cache'.products
  /\ \A c \in {"sales", "purchases", "alerts", "users"} : cache'[c] = cache[c]

UpdateNotFound ==
  /\ last'.result = "rejected"
  /\ log' = <<>>
  /\ cache' = cache
  /\ stored' = stored

C10_PatchStep ==
  last'.op = "updateProduct" =>
    LET i == FindIndex(cache.products, last'.id)
    IN  /\ i = 0 => UpdateNotFound
        /\ (i # 0 /\ last'.result = "ok") =>
             LET old == cache.products[i]
                 new == cache'.products[i]
                 patch == last'.data
             IN  /\ UpdateFrame(i)
                 /\ \A k \in DOMAIN patch : Has(new, k) /\ new[k] = patch[k]
                 /\ \A k \in DOMAIN old \ (DOMAIN patch \cup {"dateUpdated"}) :
                      Has(new, k) /\ new[k] = old[k]
                 /\ Has(new, "dateUpdated") /\ new.dateUpdated = now

C10_PatchWinsEveryKey == [][C10_PatchStep]_vars

(***************************************************************************)
(* C10 as the code has it: the same, except that the key dateUpdated       *)
(* always carries the time of the call, whatever the patch says for it.    *)
(***************************************************************************)
C10_StampStep ==
  last'.op = "updateProduct" =>
    LET i == FindIndex(cache.products, last'.id)
    IN  /\ i = 0 => UpdateNotFound
        /\ (i # 0 /\ last'.result = "ok") =>
             LET old == cache.products[i]
                 new == cache'.products[i]
                 patch == last'.data
             IN  /\ UpdateFrame(i)
                 /\ DOMAIN new = DOMAIN old \cup DOMAIN patch \cup {"dateUpdated"}
                 /\ \A k \in DOMAIN patch \ {"dateUpdated"} : new[k] = patch[k]
                 /\ \A k \in DOMAIN old \ (DOMAIN patch \cup {"dateUpdated"}) :
                      new[k] = old[k]
                 /\ new.dateUpdated = now

C10_PatchWinsExceptTimestamp == [][C10_StampStep]_vars

\* a product of two was patched with a timestamp of the caller's, later than it
C10_Witness ==
  /\ last.op = "updateProduct" /\ last.result = "ok"
  /\ Len(cache.products) = 2
  /\ Has(last.data, "dateUpdated") /\ Has(last.data, "minStock")
  /\ \E i \in 1..Len(cache.products) :
       /\ cache.products[i].id = last.id
       /\ cache.products[i].minStock = last.data.minStock
       /\ cache.products[i].dateUpdated = now
       /\ now # last.data.dateUpdated

(***************************************************************************)
(* C11: deleteProduct with an id no product has rejects, saves nothing and *)
(* leaves the Document as it was.  With an id some product has (and the    *)
(* save succeeding) every product with that id is gone, the other products *)
(* keep their order, and sales, purchases and alerts are what they were,   *)
(* the records naming the deleted product included.                        *)
(***************************************************************************)
C11_Step ==
  last'.op = "deleteProduct" =>
    LET present == \E i \in 1..Len(cache.products) : cache.products[i].id = last'.id
    IN  /\ ~present =>
             /\ last'.result = "rejected"
             /\ log' = <<>>
             /\ cache' = cache
             /\ stored' = stored
        /\ (present /\ last'.result = "ok") =>
             /\ \A i \in 1..Len(cache'.products) : cache'.products[i].id # last'.id
             /\ cache'.products = SelectSeq(cache.products, LAMBDA p : p.id # last'.id)
             /\ \A c \in {"sales", "purchases", "alerts", "users"} :
                  cache'[c] = cache[c] /\ stored'[c] = cache[c]
             /\ stored'.products = cache'.products

C11_DeleteLeavesDependents == [][C11_Step]_vars

\* a product was deleted that an alert and a sale still name
C11_Witness ==
  /\ last.op = "deleteProduct" /\ last.result = "ok"
  /\ \A i \in 1..Len(cache.products) : cache.products[i].id # last.id
  /\ \E i \in 1..Len(cache.alerts) : cache.alerts[i].productId = last.id
  /\ \E i \in 1..Len(cache.sales) : cache.sales[i].items[1].productId = last.id

(***************************************************************************)
(* C12: after addProduct resolves, getProductById of the returned id gives *)
(* a record equal to the input on every supplied field, with the defaults  *)
(* on the omitted ones, whose id is the one the store generated.           *)
(***************************************************************************)
C12_Step ==
  (last'.op = "addProduct" /\ last'.result = "ok") =>
    LET rec == getProductById([cache |-> cache'], last'.returned)
        data == last'.data
    IN  /\ rec # Null
        /\ \A k \in DOMAIN data : Has(rec, k) /\ rec[k] = data[k]
        /\ ~Has(data, "currentStock") => rec.currentStock = ZeroStock
        /\ ~Has(data, "minStock") => rec.minStock = 0
        /\ rec.id # NoId
        /\ rec.id = generateId("prod", nextId)

C12_AddThenGetById == [][C12_Step]_vars

(***************************************************************************)
(* C13: a merging import never duplicates or overwrites: what was in a     *)
(* collection is still there, unchanged and in place; what was appended    *)
(* has an id the collection did not have; and a collection whose ids were  *)
(* pairwise distinct has pairwise distinct ids afterwards, whatever the    *)
(* payload.                                                                *)
(***************************************************************************)
Distinct(list) ==
  \A i, j \in 1..Len(list) :
    (i # j /\ Has(list[i], "id") /\ Has(list[j], "id")) => list[i].id # list[j].id

IdsOf(list) == {list[i].id : i \in {i \in 1..Len(list) : Has(list[i], "id")}}

C13_Step ==
  (last'.op = "importDB" /\ last'.result = "ok" /\ last'.data.merge) =>
    \A c \in {"products", "sales", "purchases", "alerts"} :
      /\ Len(cache'[c]) >= Len(cache[c])
      /\ SubSeq(cache'[c], 1, Len(cache[c])) = cache[c]
      /\ \A i \in (Len(cache[c]) + 1)..Len(cache'[c]) :
           Has(cache'[c][i], "id") /\ cache'[c][i].id \notin IdsOf(cache[c])
      /\ Distinct(cache[c]) => Distinct(cache'[c])

C13_MergeNeverDuplicates == [][C13_Step]_vars

(***************************************************************************)
(* C14: a replacing import of a parsable text resolves and leaves each of  *)
(* products, sales, purchases and alerts equal to the incoming list of     *)
(* that name, or empty when the incoming value has no list of that name.   *)
(* As the claim states it, this holds for every parsable text.             *)
(***************************************************************************)
Replaced(text) ==
  /\ last'.result = "ok"
  /\ \A c \in {"products", "sales", "purchases", "alerts"} :
       /\ cache'[c] = IF c \in DOMAIN text.value.lists THEN text.value.lists[c] ELSE <<>>
       /\ stored'[c] = cache'[c]

C14_ParsableStep ==
  (last'.op = "importDB" /\ ~last'.data.merge /\ last'.data.text.kind = "json") =>
    Replaced(last'.data.text)

C14_ReplacesForParsableText == [][C14_ParsableStep]_vars

(***************************************************************************)
(* C14 as the code has it: the same for every parsable text whose value is *)
(* not null; the text null parses, and the import then rejects, saves      *)
(* nothing and leaves the Document as it was.                              *)
(***************************************************************************)
C14_ObjectStep ==
  (last'.op = "importDB" /\ ~last'.data.merge /\ last'.data.text.kind = "json") =>
    IF last'.data.text.value.isNull
    THEN /\ last'.result = "rejected"
         /\ log' = <<>>
         /\ cache' = cache
         /\ stored' = stored
    ELSE Replaced(last'.data.text)

C14_ReplacesUnlessNull == [][C14_ObjectStep]_vars

\* a text whose products is no list was imported over a stocked Document:
\* no product is left
C14_Witness ==
  /\ last.op = "importDB" /\ last.result = "ok" /\ ~last.data.merge
  /\ "products" \in last.data.text.value.others
  /\ cache.products = <<>> /\ stored.products = <<>>

(***************************************************************************)
(* C15: exportDB, then importDB of the exported text with merge = false,   *)
(* leaves products, sales, purchases and alerts equal to what they were    *)
(* before the export.                                                      *)
(***************************************************************************)
C15_Step ==
  (/\ last.op = "exportDB"
   /\ last'.op = "importDB" /\ last'.data.text = last.data.text
   /\ ~last'.data.merge) =>
    /\ last'.result = "ok"
    /\ \A c \in {"products", "sales", "purchases", "alerts"} : cache'[c] = cache[c]

C15_ExportImportRoundTrip == [][C15_Step]_vars

\* the export of a Document with products and alerts was imported back
C15_Witness ==
  /\ last.op = "importDB" /\ last.result = "ok" /\ ~last.data.merge
  /\ "meta" \in last.data.text.value.others
  /\ Len(cache.products) = 2 /\ Len(cache.alerts) >= 1
  /\ Has(cache.meta, "importedAt")

(***************************************************************************)
(* C16: importDB of an empty text or of a text that is no JSON rejects     *)
(* before any save, with merge or without: the cache and the persisted     *)
(* Document are what they were, and no watcher is called.                  *)
(***************************************************************************)
C16_Step ==
  (last'.op = "importDB" /\ last'.data.text.kind \in {"empty", "broken"}) =>
    /\ last'.result = "rejected"
    /\ log' = <<>>
    /\ cache' = cache
    /\ stored' = stored

C16_BadTextLeavesDocument == [][C16_Step]_vars

\* a text that is no JSON was given to a merging import while a watcher
\* was registered
C16_Witness ==
  /\ last.op = "importDB" /\ last.result = "rejected"
  /\ last.data.text.kind = "broken" /\ last.data.merge
  /\ watchers # <<>>
  /\ log = <<>>

(***************************************************************************)
(* C17: when the adapter's save fails in the first save of an operation    *)
(* (the only save of saveDB, of a product or alert operation and of        *)
(* importDB; the record save of addSale and addPurchase), the operation    *)
(* rejects, the save is not tried again, the cache and the persisted       *)
(* Document are what they were, and no stock reconciliation has run.       *)
(***************************************************************************)
C17_Step ==
  (Len(log') >= 1 /\ log'[1].kind = "savefail") =>
    /\ last'.result = "rejected"
    /\ Len(log') = 1
    /\ cache' = cache
    /\ stored' = stored
    /\ ~last'.reconciled

C17_FailedSaveRejects == [][C17_Step]_vars

\* a sale whose record save failed: rejected, nothing saved, stock as stocked
C17_Witness ==
  /\ last.op = "addSale" /\ last.result = "rejected"
  /\ Len(log) = 1 /\ log[1].kind = "savefail"
  /\ cache.sales = <<>>
  /\ \E i \in 1..Len(cache.products) : cache.products[i].currentStock = FullStock

(***************************************************************************)
(* C18: loadDB consults the adapter exactly when there is no cache or      *)
(* force is set.  Otherwise it returns a copy equal to the cache and       *)
(* leaves cache and persisted Document alone; so an unforced loadDB after  *)
(* a successful saveDB(doc) returns the collections of doc.                *)
(***************************************************************************)
Consulted(events) == \E n \in 1..Len(events) : events[n].kind = "load"

C18_Step ==
  last'.op = "loadDB" =>
    /\ Consulted(log') <=> (cache = Null \/ last'.data.force)
    /\ ~Consulted(log') =>
         /\ last'.data.db = cache
         /\ cache' = cache
         /\ stored' = stored
    /\ (last.op = "saveDB" /\ last.result = "ok" /\ ~last'.data.force) =>
         \A c \in Collections : last'.data.db[c] = deepClone(last.data)[c]

C18_LoadConsultsAdapterOnlyWhenNeeded == [][C18_Step]_vars

\* an unforced load right after a save returned the saved product without
\* consulting the adapter
C18_Witness ==
  /\ last.op = "loadDB" /\ ~last.data.force
  /\ log = <<>>
  /\ last.data.db = cache
  /\ Len(cache.products) = 1
  /\ stored # Null /\ stored.products = cache.products

(***************************************************************************)
(* C19: changing an object the controller handed out, or was handed, never *)
(* changes what a later loadDB returns; the cache changes only with a      *)
(* successful save, an adapter load or a clear.                            *)
(***************************************************************************)
Loaded == loadDBRun(StartRun(0), FALSE).db

C19_Step ==
  /\ last'.op = "mutate" => (Loaded' = Loaded /\ cache' = cache /\ stored' = stored)
  /\ cache' # cache =>
       \E n \in 1..Len(log') : log'[n].kind \in {"save", "load", "clear"}

C19_KeptObjectsNeverReachCache == [][C19_Step]_vars

\* the Document a watcher was handed, and kept, has been changed while a
\* record returned by addProduct is kept too
C19_Witness ==
  /\ last.op = "mutate" /\ last.data.from = "watcher"
  /\ \E h \in heap.held : h.from = "addProduct"
  /\ Len(cache.products) >= 1

(***************************************************************************)
(* C20: calling the function onChange(callback) returned removes exactly   *)
(* one registration, the one it was returned for; every other              *)
(* registration, one of the same callback included, stays and is called by *)
(* the next save.                                                          *)
(***************************************************************************)
Registrations(list, fn) == Cardinality({i \in 1..Len(list) : list[i] = fn})

Calls(events, fn) ==
  Cardinality({n \in 1..Len(events) : events[n].kind = "call" /\ events[n].fn = fn})

C20_OneStep ==
  /\ last'.op = "unsubscribe" =>
       /\ Len(watchers') = Len(watchers) - 1
       /\ \A fn \in Callbacks :
            fn # last'.data.callback =>
              Registrations(watchers', fn) = Registrations(watchers, fn)
  /\ (last.op = "unsubscribe" /\ last'.op = "saveDB" /\ last'.result = "ok") =>
       \A fn \in Callbacks : Calls(log', fn) = Registrations(watchers, fn)

C20_UnsubscribeRemovesOneRegistration == [][C20_OneStep]_vars

(***************************************************************************)
(* C20 as the code has it: the call removes every registration of that     *)
(* callback function, however often it was registered; the registrations  *)
(* of other functions stay, in their order, and the next save calls each   *)
(* of them once and the removed callback not at all.                       *)
(***************************************************************************)
C20_AllStep ==
  /\ last'.op = "unsubscribe" =>
       /\ Registrations(watchers', last'.data.callback) = 0
       /\ watchers' = SelectSeq(watchers, LAMBDA fn : fn # last'.data.callback)
       /\ \A fn \in Callbacks :
            fn # last'.data.callback =>
              Registrations(watchers', fn) = Registrations(watchers, fn)
  /\ (last.op = "unsubscribe" /\ last'.op = "saveDB" /\ last'.result = "ok") =>
       /\ Calls(log', last.data.callback) = 0
       /\ \A fn \in Callbacks : Calls(log', fn) = Registrations(watchers, fn)

C20_UnsubscribeRemovesEveryRegistration == [][C20_AllStep]_vars

\* one unsubscribe of a callback registered twice: both registrations are
\* gone, the watcher of the other function is left
C20_Witness ==
  /\ last.op = "unsubscribe" /\ last.data.callback = "good"
  /\ last.data.removed = 2
  /\ watchers = <<"bad">>

(***************************************************************************)
(* C21: when nothing, or a text that does not parse, lies under the        *)
(* storage key, the adapter's load does not fail: the load resolves with a *)
(* fresh empty Document (current version, every collection empty), and     *)
(* that Document is what lies under the key afterwards.                    *)
(***************************************************************************)
IsFresh(db) ==
  /\ DOMAIN db = DOMAIN emptyDB
  /\ db.meta.version = DB_VERSION
  /\ \A c \in Collections : db[c] = <<>>

C21_Step ==
  ( /\ last'.op \in {"loadDB", "clearDB"} /\ Consulted(log')
    /\ (stored \in {Null, EmptyStored, Garbage} \/ last'.op = "clearDB") ) =>
    /\ last'.result = "ok"
    /\ IsFresh(last'.data.db)
    /\ stored' = last'.data.db
    /\ cache' = last'.data.db

C21_AbsentOrUnparsableGivesFresh == [][C21_Step]_vars

\* the first load found a text that does not parse, and reported it
C21_Witness ==
  /\ last.op = "loadDB"
  /\ \E n \in 1..Len(log) : log[n].kind = "error"
  /\ IsFresh(cache) /\ stored = cache

(***************************************************************************)
(* C22: loading a stored Document whose meta is missing or names another   *)
(* version returns, caches and persists a Document of the current version  *)
(* with the stored products, sales and purchases (empty where the stored   *)
(* Document has none) and with no alerts and no users; loading a stored    *)
(* Document of the current version returns it as it is, alerts included,   *)
(* and writes nothing.                                                     *)
(***************************************************************************)
IsDocument(raw) == raw \notin {Null, EmptyStored, Garbage, StoredNull}

NeedsMigration(raw) ==
  \/ ~Has(raw, "meta")
  \/ ~Has(raw.meta, "version")
  \/ raw.meta.version # DB_VERSION

C22_Step ==
  (last'.op = "loadDB" /\ Consulted(log') /\ IsDocument(stored)) =>
    LET db == last'.data.db
    IN  IF NeedsMigration(stored)
        THEN /\ db.meta.version = DB_VERSION
             /\ \A c \in {"products", "sales", "purchases"} :
                  db[c] = IF Has(stored, c) THEN stored[c] ELSE <<>>
             /\ db.alerts = <<>> /\ db.users = <<>>
             /\ stored' = db /\ cache' = db
        ELSE /\ db = stored
             /\ stored' = stored /\ cache' = db

C22_MigrationKeepsThreeLists == [][C22_Step]_vars

\* a Document of an earlier version with products and an alert was loaded
C22_Witness ==
  /\ last.op = "loadDB"
  /\ log # <<>>
  /\ Len(cache.products) = 2 /\ cache.alerts = <<>> /\ cache.users = <<>>
  /\ stored = cache
  /\ cache.meta.version = DB_VERSION

(***************************************************************************)
(* C23: in every reachable state no two records of the products collection *)
(* have the same id, whatever the caller supplies to addProduct or         *)
(* updateProduct.                                                          *)
(***************************************************************************)
C23_ProductIdsUnique ==
  \A i, j \in 1..Len(cache.products) :
    cache.products[i].id = cache.products[j].id => i = j

(***************************************************************************)
(* C24: addSale and addPurchase both bring the unit name of an item,       *)
(* whatever its case, to one of box, piece, sft, as normalizeUnitName      *)
(* does, and change the counter of that unit by the quantity; only a name  *)
(* that is none of these falls to the pieces counter.                      *)
(***************************************************************************)
NormalisedCounter(unitType) ==
  LET u == normalizeUnitName(unitType)
  IN  IF u = "box" THEN "boxes"
      ELSE IF u = "sft" THEN "sft"
      ELSE "pieces"

C24_Step ==
  (IsTxn(last') /\ last'.result = "ok" /\ last'.reconciled /\ Len(last'.data) = 1) =>
    \A i \in 1..Len(cache.products) :
      cache.products[i].id = last'.data[1].productId =>
        LET item == last'.data[1]
            sign == IF last'.op = "addSale" THEN 0 - 1 ELSE 1
        IN  cache'.products[i].currentStock[NormalisedCounter(item.unitType)]
              = Round3(cache.products[i].currentStock[NormalisedCounter(item.unitType)]
                       + sign * item.quantity)

C24_BothNormaliseUnits == [][C24_Step]_vars

(***************************************************************************)
(* C25: whatever addSale, addPurchase, addAlert, resolveAlert, addProduct, *)
(* updateProduct or deleteProduct does, every alert record stays in the    *)
(* alerts collection, in its place, and an alert that is resolved stays    *)
(* resolved.                                                               *)
(***************************************************************************)
C25_Step ==
  /\ Len(cache'.alerts) >= Len(cache.alerts)
  /\ \A j \in 1..Len(cache.alerts) :
       /\ cache'.alerts[j].id = cache.alerts[j].id
       /\ cache'.alerts[j].productId = cache.alerts[j].productId
       /\ cache.alerts[j].resolved => cache'.alerts[j].resolved
  /\ Len(stored'.alerts) >= Len(stored.alerts)
  /\ \A j \in 1..Len(stored.alerts) :
       /\ stored'.alerts[j].id = stored.alerts[j].id
       /\ stored.alerts[j].resolved => stored'.alerts[j].resolved

C25_AlertsNeverRemovedNorReopened == [][C25_Step]_vars

\* a sale opened a second alert for a product whose first alert a purchase
\* had resolved: the resolved one is still there, and still resolved
C25_Witness ==
  /\ last.op = "addSale" /\ last.reconciled
  /\ Len(cache.alerts) = 2
  /\ cache.alerts[1].resolved /\ ~cache.alerts[2].resolved
  /\ cache.alerts[1].productId = cache.alerts[2].productId
  /\ Len(cache.purchases) >= 1

(***************************************************************************)
(* C26: convertUnits never throws.  As the claim states it, the result is  *)
(* the not-a-number sentinel exactly when the two units differ and a       *)
(* factor needed by either side (piecesPerBox for piece, sftPerBox for     *)
(* sft) is zero or missing; otherwise it is the quantity converted by way  *)
(* of boxes, to three decimals.                                            *)
(***************************************************************************)
Converted == last.op = "convertUnits"

\* the factor of a unit per box, in tenths
PerBox(unit, call) ==
  IF unit = "box" THEN Tenths(1)
  ELSE IF unit = "sft" THEN toNumber(call.sftPerBox)
  ELSE toNumber(call.piecesPerBox)

\* r is the quantity times the factor of the target over the factor of the
\* source, to the nearest thousandth
IsConversion(r, call, from, to) ==
  LET exactTimesFrom == toNumber(call.quantity) * PerBox(to, call)
      half == (TicksPerUnit \div Thousand) * PerBox(from, call)
  IN  /\ r.finite
      /\ ThreeDecimals(r.n)
      /\ 2 * (r.n * PerBox(from, call) - exactTimesFrom) <= half
      /\ 2 * (exactTimesFrom - r.n * PerBox(from, call)) <= half

ZeroOrMissing(factor) == ~factor.finite \/ factor.n = 0

C26_NaNWhenFactorZeroOrMissing ==
  Converted =>
    LET call == last.data
        from == normalizeUnitName(call.fromUnit)
        to == normalizeUnitName(call.toUnit)
        unavailable ==
          /\ from # to
          /\ \/ "piece" \in {from, to} /\ ZeroOrMissing(call.piecesPerBox)
             \/ "sft" \in {from, to} /\ ZeroOrMissing(call.sftPerBox)
    IN  IF unavailable THEN call.result = NaN
        ELSE /\ call.result.finite
             /\ (from # to /\ {from, to} \subseteq {"box", "piece", "sft"}) =>
                  IsConversion(call.result, call, from, to)

(***************************************************************************)
(* C26 as the code has it: the sentinel is returned exactly when the two   *)
(* normalised units differ and (a) a factor needed by either side is not a *)
(* positive number: zero, missing, or negative; a source unit that is none *)
(* of box, piece, sft counts as piece; or (b) the target unit is none of   *)
(* box, piece, sft.  Otherwise the result is the converted quantity.       *)
(***************************************************************************)
NotPositive(factor) == toNumber(factor) <= 0

C26_NaNWhenFactorNotPositiveOrUnitUnknown ==
  Converted =>
    LET call == last.data
        from == normalizeUnitName(call.fromUnit)
        to == normalizeUnitName(call.toUnit)
        known == {"box", "piece", "sft"}
        unavailable ==
          /\ from # to
          /\ \/ (from \notin {"box", "sft"} \/ to = "piece") /\ NotPositive(call.piecesPerBox)
             \/ "sft" \in {from, to} /\ NotPositive(call.sftPerBox)
             \/ to \notin known
    IN  IF unavailable THEN call.result = NaN
        ELSE /\ call.result.finite
             /\ from = to => call.result.n = Round3(toNumber(call.quantity))
             /\ from # to =>
                  IsConversion(call.result, call,
                               IF from \in known THEN from ELSE "piece", to)

\* convertUnits(10, 'piece', 'box', 0, 50) gave the sentinel
C26_Witness ==
  /\ Converted
  /\ last.data.quantity = Num(Unit(10))
  /\ last.data.fromUnit = "Piece" /\ last.data.toUnit = "box"
  /\ last.data.piecesPerBox = Num(0) /\ last.data.sftPerBox = Num(Tenths(50))
  /\ last.data.result = NaN

(***************************************************************************)
(* C27: the rounding of a stock triple to three decimals is idempotent:    *)
(* applied to a triple that it produced, it gives that triple again.       *)
(***************************************************************************)
C27_Step ==
  (last.op = "round" /\ last'.op = "round") => last'.data.stock = last.data.stock

C27_RoundingIdempotent == [][C27_Step]_vars

\* a triple with a counter below zero and a counter at the half thousandth
\* was rounded twice, and the rounding had changed it
C27_Witness ==
  /\ last.op = "round" /\ last.data.rounds = 2
  /\ last.data.stock # last.data.given
  /\ last.data.given.boxes < 0
  /\ last.data.given.sft = 5 /\ last.data.stock.sft = TicksPerUnit \div Thousand

(***************************************************************************)
(* C29: no watcher is ever shown a Document in which the record of a sale  *)
(* or purchase is present while the stock change of one of its line items  *)
(* (for an existing product) is not applied.                               *)
(***************************************************************************)
Shows(doc, op) ==
  \E k \in 1..Len(doc[TxnCollection(op)]) : doc[TxnCollection(op)][k].id = op.returned

C29_Step ==
  (IsTxn(last') /\ last'.result = "ok") =>
    \A n \in 1..Len(log') :
      (log'[n].kind = "call" /\ Shows(log'[n].doc, last')) =>
        \A i \in 1..Len(cache.products) :
          ItemsFor(last', cache.products, i) # {} =>
            \A c \in Counters :
              log'[n].doc.products[i].currentStock[c]
                = Round3(cache.products[i].currentStock[c]
                         + Delta(last', cache.products, i, c))

C29_NoPartialWriteVisible == [][C29_Step]_vars

(***************************************************************************)
(* C28: with two tabs on one storage key, a mutating operation of a tab    *)
(* saves the Document of that tab's cache: what the other tab had written  *)
(* since that cache was loaded is not in the persisted Document afterwards *)
(* (last writer wins), the other tab's cache and watchers are untouched,   *)
(* and only the watchers of the writing tab are called.                    *)
(***************************************************************************)
Mutating ==
  {"addProduct", "updateProduct", "deleteProduct", "addSale", "addPurchase",
   "addAlert", "resolveAlert"}

C28_Step ==
  (last'.op \in Mutating /\ last'.result = "ok") =>
    /\ \A c \in {"products", "sales", "purchases", "alerts"} :
         /\ stored'[c] = cache'[c]
         /\ \A k \in 1..Len(stored[c]) :
              stored[c][k].id \notin IdsOf(cache[c]) =>
                stored[c][k].id \notin IdsOf(stored'[c])
    /\ otherTab' = otherTab
    /\ \A n \in 1..Len(log') :
         log'[n].kind = "call" => log'[n].fn = watchers[log'[n].pos]

C28_LastWriterWins == [][C28_Step]_vars

\* the other tab had added an alert, and saved it; this tab then patched a
\* product: the persisted Document has the patch and no alert
C28_Witness ==
  /\ last.op = "updateProduct" /\ last.result = "ok"
  /\ otherTab.name # "none"
  /\ otherTab.cache.alerts # <<>>
  /\ stored.alerts = <<>>
  /\ stored.products = cache.products
  /\ otherTab.cache.products # stored.products

(***************************************************************************)
(* C30: when a page has started two mutating operations without awaiting   *)
(* the first, and both have settled, the Document holds the effect of      *)
(* both: a product added is there, a patch is on its product, a sale is    *)
(* recorded; and every counter is what it was when the first was started,  *)
(* minus the quantities of the sales recorded since.                       *)
(***************************************************************************)
BothSettled == inflight.queue = <<>> /\ Len(inflight.done) = 2

HoldsEffect(doc, d) ==
  CASE d.op = "addProduct" -> d.returned \in IdsOf(doc.products)
    [] d.op = "updateProduct" ->
         \A i \in 1..Len(doc.products) :
           doc.products[i].id = d.args.id =>
             \A k \in DOMAIN d.args.updates : doc.products[i][k] = d.args.updates[k]
    [] d.op = "addSale" -> d.returned \in IdsOf(doc.sales)

\* the quantities the sales recorded since the start took from counter c of p
SoldSince(doc, p, c) ==
  LET new == {k \in 1..Len(doc.sales) : doc.sales[k].id \notin IdsOf(inflight.base.sales)}
      hits == {k \in new : /\ doc.sales[k].items[1].productId = p
                           /\ SaleCounter(doc.sales[k].items[1].unitType) = c}
  IN  Cardinality(hits) * Unit(4)

C30_BothEffectsPresent ==
  BothSettled =>
    /\ \A n \in 1..Len(inflight.done) :
         inflight.done[n].result = "ok" =>
           HoldsEffect(cache, inflight.done[n]) /\ HoldsEffect(stored, inflight.done[n])
    /\ \A i \in 1..Len(inflight.base.products) :
         \A k \in 1..Len(cache.products) :
           cache.products[k].id = inflight.base.products[i].id =>
             \A c \in Counters :
               cache.products[k].currentStock[c]
                 = inflight.base.products[i].currentStock[c]
                   - SoldSince(cache, cache.products[k].id, c)

(***************************************************************************)
(* C32: a purchase resolves an unresolved alert of a product only when a   *)
(* counter the purchase added to, for that product, is at or above the     *)
(* product's minStock after the purchase.                                  *)
(***************************************************************************)
\* alert j of the cache was unresolved before the step and is resolved after
ResolvedByStep(j) ==
  /\ j <= Len(cache.alerts) /\ ~cache.alerts[j].resolved
  /\ cache'.alerts[j].resolved

C32_Step ==
  (last'.op = "addPurchase" /\ last'.result = "ok") =>
    \A j \in 1..Len(cache'.alerts) :
      ResolvedByStep(j) =>
        \E n \in 1..Len(last'.data) : \E i \in 1..Len(cache'.products) :
          /\ last'.data[n].productId = cache'.alerts[j].productId
          /\ cache'.products[i].id = cache'.alerts[j].productId
          /\ cache'.products[i].currentStock[PurchaseCounter(last'.data[n].unitType)]
               >= cache'.products[i].minStock

C32_ResolvedOnlyByRelevantCounter == [][C32_Step]_vars

(***************************************************************************)
(* C33: after a successful saveDB the cache, the Document every watcher    *)
(* was handed and the persisted Document all carry the time of that save   *)
(* as meta.updatedAt, and the cache equals the persisted Document.         *)
(***************************************************************************)
C33_Step ==
  (last'.op = "saveDB" /\ last'.result = "ok") =>
    /\ stored'.meta.updatedAt = now
    /\ cache'.meta.updatedAt = now
    /\ cache' = stored'
    /\ \A n \in 1..Len(log') :
         log'[n].kind = "call" => log'[n].doc.meta.updatedAt = now

C33_SaveStampsInstalledState == [][C33_Step]_vars

(***************************************************************************)
(* C34: whenever an operation changes the persisted Document, every        *)
(* registered watcher is called with the new state before the operation    *)
(* completes.                                                              *)
(***************************************************************************)
\* watcher i was called during the step with the state the step leaves cached
CalledWithNewState(i) ==
  \E n \in 1..Len(log') :
    log'[n].kind = "call" /\ log'[n].pos = i /\ log'[n].doc = cache'

C34_Step ==
  stored' # stored => \A i \in 1..Len(watchers) : CalledWithNewState(i)

C34_EveryWriteNotifies == [][C34_Step]_vars

(***************************************************************************)
(* C35: from every Document, for every list of line items, an awaited      *)
(* addSale followed by an awaited addPurchase with the same items leaves   *)
(* the three counters of every product as they were before the sale.       *)
(***************************************************************************)
C35_PurchaseUndoesSale ==
  last.op = "addSale;addPurchase" =>
    \A i \in 1..Len(last.data.before) :
      cache.products[i].currentStock = last.data.before[i].currentStock

(***************************************************************************)
(* C36: after setAdapter has switched the adapter, the next unforced       *)
(* loadDB returns the Document the new adapter holds, and the next         *)
(* addProduct adds its product to that Document: the products the new      *)
(* adapter held are kept.                                                  *)
(***************************************************************************)
JustSwitched == last.op = "setAdapter" /\ last.data.switched

C36_Step ==
  JustSwitched =>
    /\ (last'.op = "loadDB" /\ ~last'.data.force) => last'.data.db = deepClone(stored)
    /\ (last'.op = "addProduct" /\ last'.result = "ok") =>
         /\ Len(stored'.products) = Len(stored.products) + 1
         /\ \A i \in 1..Len(stored.products) : stored'.products[i] = stored.products[i]

C36_ReadsFromNewAdapter == [][C36_Step]_vars

(***************************************************************************)
(* C31: the watchers of one save run strictly one after another: when a    *)
(* watcher is called, no watcher called before it in the same operation    *)
(* has work left to do.                                                    *)
(***************************************************************************)
\* the jobs the step has queued
QueuedByStep ==
  {k \in 1..Len(inflight'.queue) : k > Len(inflight.queue)}

\* event n of the step is the call of a watcher, made while the watcher
\* called at an earlier event still had a job to run
StartedBeforePreviousFinished(n) ==
  /\ log'[n].kind = "call"
  /\ \E k \in QueuedByStep :
       /\ inflight'.queue[k].op = "watcher"
       /\ inflight'.queue[k].args.event < n

C31_Step ==
  (last'.op \in {"saveDB", "addProduct"}) =>
    \A n \in 1..Len(log') : ~StartedBeforePreviousFinished(n)

C31_WatchersOneAfterAnother == [][C31_Step]_vars

====
